---- MODULE Spec2Model ----
(***************************************************************************)
(* Physical operators of chisel (deriva/chisel/operators/base.py): every   *)
(* operator derives a relation description (columns, keys, foreign keys)   *)
(* from its child and yields rows lazily.  The model keeps a plan, a       *)
(* sequence of constructed operators, the store of key / foreign key       *)
(* definitions the descriptions share (Python dicts are shared by          *)
(* reference), and one iteration of the top operator of the plan.          *)
(***************************************************************************)
EXTENDS Integers, Sequences, FiniteSets, TLC

VARIABLES
    ops,     \* the plan: sequence of constructed operators, ops[1] a base relation
    cdefs,   \* store of key / foreign key definitions (dict objects), by identity
    proj,    \* projection items collected for the next Project
    iter,    \* the running iteration of the top operator: [pc, pos, out]
    raised,  \* the exception the last constructor call raised, "none" if it returned
    call,    \* a call of a function of the module made on its own: its arguments
             \* and its return value
    introspected,  \* whether the last Project constructor called an introspection function
    catalog  \* an ERMrestCatalog: the flags of its evolve context, the calls made
             \* to the remote catalog and the tables of its local model

vars == <<ops, cdefs, proj, iter, raised, call, introspected, catalog>>

\* a catalog that is not in use
NoCatalog == [allow_alter |-> FALSE, allow_drop |-> FALSE, calls |-> <<>>, tables |-> <<>>]

\* no call of a module-level function under way
NoCall == [tname |-> "", cnames |-> <<>>, suffix |-> "", result |-> "", returned |-> FALSE]

-----------------------------------------------------------------------------
(* Bounds of the model *)

\* most items a projection holds
MaxProj == 2
\* most operators of a plan (base relations included)
MaxOps == 3

-----------------------------------------------------------------------------
(* Strings *)

tname_placeholder == "{__computed_relation__}"

Min(a, b) == IF a < b THEN a ELSE b

\* s[:n] of Python for n >= 0
Prefix(s, n) == SubSeq(s, 1, Min(Len(s), n))

\* '_'.join(cnames)
RECURSIVE JoinNames(_)
JoinNames(cnames) ==
    IF Len(cnames) = 0 THEN ""
    ELSE IF Len(cnames) = 1 THEN cnames[1]
    ELSE cnames[1] \o "_" \o JoinNames(Tail(cnames))

\* _make_constraint_name(tname, *cnames, suffix)
make_constraint_name(tname, cnames, suffix) ==
    LET constraint_name == tname \o "_" \o JoinNames(cnames)
    IN  Prefix(constraint_name, 63 - Len(suffix)) \o "_" \o suffix

\* str.replace(old, new): every non-overlapping occurrence, left to right
RECURSIVE StrReplace(_, _, _)
StrReplace(s, old, new) ==
    IF Len(s) < Len(old) THEN s
    ELSE IF SubSeq(s, 1, Len(old)) = old
         THEN new \o StrReplace(SubSeq(s, Len(old) + 1, Len(s)), old, new)
         ELSE SubSeq(s, 1, 1) \o StrReplace(SubSeq(s, 2, Len(s)), old, new)

-----------------------------------------------------------------------------
(* Sequences and mappings *)

Range(s) == {s[i] : i \in 1..Len(s)}

SeqMap(Op(_), s) == [i \in 1..Len(s) |-> Op(s[i])]

RECURSIVE Concat(_)
Concat(ss) == IF Len(ss) = 0 THEN <<>> ELSE Head(ss) \o Concat(Tail(ss))

\* a dict with no entry
EmptyMap == [k \in {} |-> <<>>]

\* d[k] = v
MapPut(d, k, v) == [x \in DOMAIN d \cup {k} |-> IF x = k THEN v ELSE d[x]]

\* del d[k]
MapDel(d, k) == [x \in DOMAIN d \ {k} |-> d[x]]

\* an insertion-ordered dict as a sequence of [key, val]: d[k] = v keeps the
\* place of a key already present
ODictKeys(od) == {od[i].key : i \in 1..Len(od)}

ODictPut(od, k, v) ==
    IF k \in ODictKeys(od)
    THEN [i \in 1..Len(od) |-> IF od[i].key = k THEN [key |-> k, val |-> v] ELSE od[i]]
    ELSE Append(od, [key |-> k, val |-> v])

-----------------------------------------------------------------------------
(* Python values that a comparison tells apart *)

\* None, and the int n for a number n
None == [type |-> "NoneType", v |-> 0]
PyInt(n) == [type |-> "int", v |-> n]
IsInt(x) == x.type = "int"

\* value.__<operator>__(operand2) for eq, ne, lt, le, gt, ge: "True", "False" or
\* "NotImplemented" (an int against None, None against an int, None ordered
\* against anything)
Dunder(value, operator, operand2) ==
    IF IsInt(value) /\ IsInt(operand2)
    THEN LET holds == CASE operator = "eq" -> value.v = operand2.v
                        [] operator = "ne" -> value.v # operand2.v
                        [] operator = "lt" -> value.v < operand2.v
                        [] operator = "le" -> value.v <= operand2.v
                        [] operator = "gt" -> value.v > operand2.v
                        [] OTHER -> value.v >= operand2.v
         IN  IF holds THEN "True" ELSE "False"
    ELSE IF ~IsInt(value) /\ ~IsInt(operand2) /\ operator = "eq" THEN "True"
    ELSE IF ~IsInt(value) /\ ~IsInt(operand2) /\ operator = "ne" THEN "False"
    ELSE "NotImplemented"

\* bool(x) of such a result: NotImplemented is a true value
Truthy(result) == result # "False"

-----------------------------------------------------------------------------
(* Rows: a row is a dict, column name -> value *)

\* PhysicalOperator._rename_row_attributes(row, renames, always_copy); renames is
\* the dict {new_name: old_name} in insertion order.  The result tells whether
\* row[old_name] raised KeyError (ok) and whether the input object itself was
\* returned (same).
RECURSIVE RenameLoop(_, _, _)
RenameLoop(new_row, row, renames) ==
    IF Len(renames) = 0 THEN [ok |-> TRUE, row |-> new_row, same |-> FALSE]
    ELSE LET new_name == Head(renames).key
             old_name == Head(renames).val
         IN  IF old_name \notin DOMAIN row
             THEN [ok |-> FALSE, row |-> new_row, same |-> FALSE]
             ELSE LET put == MapPut(new_row, new_name, row[old_name])
                      del == IF old_name \in DOMAIN put THEN MapDel(put, old_name) ELSE put
                  IN  RenameLoop(del, row, Tail(renames))

\* a renaming that stops after the first pair of `renames`
rename_first_only(row, renames, always_copy) ==
    IF Len(renames) = 0
    THEN [ok |-> TRUE, row |-> row, same |-> ~always_copy]
    ELSE RenameLoop(row, row, <<Head(renames)>>)

rename_row_attributes(row, renames, always_copy) ==
    IF Len(renames) = 0
    THEN [ok |-> TRUE, row |-> row, same |-> ~always_copy]
    ELSE RenameLoop(row, row, renames)

-----------------------------------------------------------------------------
(* Relation descriptions *)

\* A description holds its keys and foreign keys as references into cdefs: the
\* list and the dicts of a description are shared by every copy() of it.
ColNames(desc) == {desc.column_definitions[i].name : i \in 1..Len(desc.column_definitions)}

ColNameSeq(desc) == [i \in 1..Len(desc.column_definitions) |-> desc.column_definitions[i].name]

\* what a reader of operator.description sees: the references resolved in store
View(desc, store) ==
    [desc EXCEPT !.keys = [i \in 1..Len(desc.keys) |-> store[desc.keys[i]]],
                 !.foreign_keys = [i \in 1..Len(desc.foreign_keys) |-> store[desc.foreign_keys[i]]]]

\* the value of a relation that sets no description
NoDescription ==
    [table_name |-> "", schema_name |-> "", column_definitions |-> <<>>,
     keys |-> <<>>, foreign_keys |-> <<>>]

\* Table.define leaves the schema name out of the document it returns
NoSchema == "<none>"

-----------------------------------------------------------------------------
(* Projection items (optimizer symbols) *)

ItemAll == [kind |-> "AllAttributes", name |-> "", alias |-> "", attrs |-> <<>>]
ItemName(c) == [kind |-> "str", name |-> c, alias |-> "", attrs |-> <<>>]
ItemAlias(c, a) == [kind |-> "AttributeAlias", name |-> c, alias |-> a, attrs |-> <<>>]
ItemDrop(c) == [kind |-> "AttributeDrop", name |-> c, alias |-> "", attrs |-> <<>>]
\* AttributeAdd(definition): json.loads(definition) is a column definition named c
ItemAdd(c) == [kind |-> "AttributeAdd", name |-> c, alias |-> "", attrs |-> <<>>]
\* IntrospectionFunction(fn) with fn(table_def) returning the list attrs
ItemIntrospect(attrs) == [kind |-> "IntrospectionFunction", name |-> "", alias |-> "", attrs |-> attrs]
\* a symbol Project does not handle
ItemRemoval(c) == [kind |-> "AttributeRemoval", name |-> c, alias |-> "", attrs |-> <<>>]

-----------------------------------------------------------------------------
(* Project.__init__ *)

\* list.remove(x): the first occurrence
RECURSIVE ListRemove(_, _)
ListRemove(s, x) ==
    IF Len(s) = 0 THEN s
    ELSE IF Head(s) = x THEN Tail(s) ELSE <<Head(s)>> \o ListRemove(Tail(s), x)

\* defaultdict(list)[k].append(v)
ListMapAppend(d, k, v) == MapPut(d, k, IF k \in DOMAIN d THEN Append(d[k], v) ELSE <<v>>)

ProjectState0 ==
    [attributes |-> {}, alias_to_cname |-> <<>>, cname_to_alias |-> EmptyMap,
     removals |-> {}, additions |-> <<>>, fkey_defs |-> <<>>, error |-> "none",
     introspected |-> FALSE]

\* one round of the loop over the projection (lines 254-300)
ProjectItem(st, item, table_def) ==
    IF st.error # "none" THEN st
    ELSE CASE item.kind = "AllAttributes" ->
                [st EXCEPT !.attributes = @ \cup ColNames(table_def)]
           [] item.kind = "str" ->
                [st EXCEPT !.attributes = @ \cup {item.name}]
           [] item.kind = "IntrospectionFunction" ->
                IF table_def.table_name = tname_placeholder
                THEN [st EXCEPT !.error = "ValueError"]
                ELSE IF table_def.schema_name = NoSchema
                THEN \* item.fn(table_def) returns, table_def['schema_name'] fails
                     [st EXCEPT !.introspected = TRUE, !.error = "KeyError"]
                ELSE LET hasRid == "RID" \in Range(item.attrs)
                         attrs == IF hasRid THEN ListRemove(item.attrs, "RID") ELSE item.attrs
                         pk_cols == item.attrs
                         renamed_rid == table_def.table_name \o "_RID"
                         fk_cols == IF hasRid
                                    THEN [i \in 1..Len(item.attrs) |->
                                            IF item.attrs[i] = "RID" THEN renamed_rid
                                            ELSE item.attrs[i]]
                                    ELSE item.attrs
                         fkey == [columns |-> fk_cols,
                                  names |-> << <<table_def.schema_name,
                                                 make_constraint_name(tname_placeholder, fk_cols, "fkey")>> >>,
                                  referenced |-> <<table_def.schema_name, table_def.table_name, pk_cols>>]
                     IN  [st EXCEPT
                            !.introspected = TRUE,
                            !.alias_to_cname = IF hasRid THEN ODictPut(@, renamed_rid, "RID") ELSE @,
                            !.cname_to_alias = IF hasRid THEN ListMapAppend(@, "RID", renamed_rid) ELSE @,
                            !.attributes = @ \cup Range(attrs),
                            !.fkey_defs = Append(@, fkey)]
           [] item.kind = "AttributeAlias" ->
                [st EXCEPT !.alias_to_cname = ODictPut(@, item.alias, item.name),
                           !.cname_to_alias = ListMapAppend(@, item.name, item.alias)]
           [] item.kind = "AttributeDrop" ->
                [st EXCEPT !.removals = @ \cup {item.name}]
           [] item.kind = "AttributeAdd" ->
                [st EXCEPT !.additions = Append(@, [name |-> item.name, type |-> "text", default |-> "None"])]
           [] OTHER -> [st EXCEPT !.error = "ValueError"]

RECURSIVE ProjectItems(_, _, _)
ProjectItems(st, projection, table_def) ==
    IF Len(projection) = 0 THEN st
    ELSE ProjectItems(ProjectItem(st, Head(projection), table_def), Tail(projection), table_def)

\* the column definitions one child column contributes (lines 308-322)
RECURSIVE AliasColumns(_, _)
AliasColumns(col_def, aliases) ==
    IF Len(aliases) = 0 THEN <<>>
    ELSE LET copy == IF col_def.name = "RID"
                     THEN [col_def EXCEPT !.type = "text", !.default = "None", !.name = Head(aliases)]
                     ELSE [col_def EXCEPT !.name = Head(aliases)]
         IN  <<copy>> \o AliasColumns(copy, Tail(aliases))

ProjectColumn(st, col_def) ==
    LET cname == col_def.name
    IN  IF cname \in st.attributes /\ cname \notin st.removals /\ cname \notin DOMAIN st.cname_to_alias
        THEN <<col_def>>
        ELSE IF cname \in DOMAIN st.cname_to_alias
             THEN AliasColumns(col_def, st.cname_to_alias[cname])
             ELSE <<>>

\* projected_attrs (lines 306-312, 326)
ProjectedAttrs(st, table_def) ==
    {cname \in ColNames(table_def) :
        cname \in st.attributes /\ cname \notin st.removals /\ cname \notin DOMAIN st.cname_to_alias}

\* self._cname_to_alias.get(cname, [cname])[0]
FirstAlias(st, cname) ==
    IF cname \in DOMAIN st.cname_to_alias THEN st.cname_to_alias[cname][1] ELSE cname

\* whether a key or foreign key is copied (lines 336, 354)
\* a test that keeps a constraint as soon as one of its columns survives
KeyIsKeptAny(cdef, all_projected_attributes) ==
    \E c \in Range(cdef.columns) : c \in all_projected_attributes

KeyIsKept(cdef, all_projected_attributes) ==
    Range(cdef.columns) \subseteq all_projected_attributes

\* the copy of a kept key or foreign key (lines 337-342, 355-363)
KeyCopy(st, cdef, table_def, suffix) ==
    LET cols == [i \in 1..Len(cdef.columns) |-> FirstAlias(st, cdef.columns[i])]
    IN  [cdef EXCEPT !.columns = cols,
                     !.names = << <<table_def.schema_name,
                                    make_constraint_name(tname_placeholder, cols, suffix)>> >>]

RECURSIVE KeyCopies(_, _, _, _, _)
KeyCopies(st, defs, table_def, all_projected_attributes, suffix) ==
    IF Len(defs) = 0 THEN <<>>
    ELSE (IF KeyIsKept(Head(defs), all_projected_attributes)
          THEN <<KeyCopy(st, Head(defs), table_def, suffix)>> ELSE <<>>)
         \o KeyCopies(st, Tail(defs), table_def, all_projected_attributes, suffix)

\* Project.__init__(child, projection): table_def is the child's description with
\* its keys resolved.  The result holds the operator's fields and, in key_defs and
\* fkey_defs, the dicts of its description.
ProjectInit(table_def, projection0) ==
    LET projection == IF Len(projection0) = 0 THEN <<ItemAll>> ELSE projection0
        st == ProjectItems(ProjectState0, projection, table_def)
        col_defs == Concat([i \in 1..Len(table_def.column_definitions) |->
                                ProjectColumn(st, table_def.column_definitions[i])])
                    \o st.additions
        projected_attrs == ProjectedAttrs(st, table_def)
        all_projected_attributes == projected_attrs \cup DOMAIN st.cname_to_alias
    IN  [error |-> st.error,
         introspected |-> st.introspected,
         attributes |-> projected_attrs,
         alias_to_cname |-> st.alias_to_cname,
         cname_to_alias |-> st.cname_to_alias,
         column_definitions |-> col_defs,
         key_defs |-> KeyCopies(st, table_def.keys, table_def, all_projected_attributes, "key"),
         fkey_defs |-> st.fkey_defs
                       \o KeyCopies(st, table_def.foreign_keys, table_def,
                                    all_projected_attributes, "fkey")]

\* Project.__iter__ on one child row: the result of the loop body, or the error
\* itemgetter raises
\* an iteration that hands the row of the child on as it is
ProjectRowUncut(attributes, alias_to_cname, cname_to_alias, row) == [ok |-> TRUE, row |-> row]

ProjectRow(attributes, alias_to_cname, cname_to_alias, row) ==
    LET original_attributes == attributes \cup DOMAIN cname_to_alias
    IN  IF ~(original_attributes \subseteq DOMAIN row)
        THEN [ok |-> FALSE, row |-> row]
        ELSE LET picked == [c \in original_attributes |-> row[c]]
                 renamed == rename_row_attributes(picked, alias_to_cname, FALSE)
             IN  [ok |-> renamed.ok, row |-> renamed.row]

-----------------------------------------------------------------------------
(* Operators of a plan *)

\* the fields of an operator object; a field a class does not set keeps the
\* value given here.  projection is a field of Alter; for a Project it records
\* the argument of the constructor, which the properties below speak about.
NoOperator ==
    [kind |-> "", child |-> 0, other |-> 0,
     own |-> FALSE, description |-> NoDescription,
     rows |-> <<>>,
     attributes |-> {}, alias_to_cname |-> <<>>, cname_to_alias |-> EmptyMap,
     unnest_fn |-> "", attribute |-> "",
     comparisons |-> <<>>, connector_fn |-> "", distinct_on |-> <<>>,
     buffer |-> <<>>,
     left |-> 0, right |-> 0, left_renames |-> <<>>, right_renames |-> <<>>,
     target |-> "", domain |-> "", synonyms |-> "", similarity_fn |-> <<>>,
     grouping |-> <<>>, nesting |-> <<>>,
     tuples |-> {}, runs |-> 0, exhausted |-> 0,
     schema_name |-> "", table_name |-> "",
     src_sname |-> "", src_tname |-> "", dst_sname |-> "", dst_tname |-> "",
     projection |-> <<>>]

\* a delegation that prefers the second operand of an operator that has one
DelegateOther(op) == IF op.other # 0 THEN op.other ELSE op.child

\* the operator whose description stands in for a missing _description: _child
Delegate(op) == op.child

\* PhysicalOperator.description of operator i of plan: its own _description, else
\* its _child's description
RECURSIVE Description(_, _)
Description(plan, i) ==
    IF plan[i].own THEN plan[i].description
    ELSE IF Delegate(plan[i]) # 0 THEN Description(plan, Delegate(plan[i]))
    ELSE NoDescription

\* operator.description as its reader sees it
DescriptionOf(plan, store, i) == View(Description(plan, i), store)

\* TempVarRef(computed_relation): description from prejson(), rows from fetch()
TempVarRef(description, rows) ==
    [NoOperator EXCEPT !.kind = "TempVarRef", !.own = TRUE,
                       !.description = description, !.rows = rows]

\* uuid.uuid1().hex: a name no other relation of the plan has
UuidHex(n) == "uuid" \o ToString(n)

\* Unnest.__init__: Table.define with the child's columns and foreign key list and
\* no key
UnnestInit(child, table_def, unnest_fn, attribute, n) ==
    [NoOperator EXCEPT
        !.kind = "Unnest", !.child = child, !.own = TRUE,
        !.unnest_fn = unnest_fn, !.attribute = attribute,
        !.description = [table_name |-> UuidHex(n), schema_name |-> NoSchema,
                         column_definitions |-> table_def.column_definitions,
                         keys |-> <<>>,
                         foreign_keys |-> table_def.foreign_keys]]

\* Assign._assign_constraint_name on one key or foreign key dict
assign_constraint_name(schema_name, table_name, constraint_def) ==
    IF Len(constraint_def.names) # 0
    THEN LET computed_name == constraint_def.names[1]
             final_name == <<schema_name,
                             StrReplace(computed_name[2], tname_placeholder, table_name)>>
         IN  [constraint_def EXCEPT !.names = <<final_name>>]
    ELSE constraint_def

\* Assign.__init__ (also Create, Alter, Drop): a shallow copy of the child's
\* description with the destination names
AssignInit(kind, child, description, schema_name, table_name) ==
    [NoOperator EXCEPT
        !.kind = kind, !.child = child, !.own = TRUE,
        !.schema_name = schema_name, !.table_name = table_name,
        !.description = [description EXCEPT !.schema_name = schema_name,
                                            !.table_name = table_name]]

\* Alter.__init__: Assign.__init__ with the destination, then the source names
\* and the projection
AlterInit(child, description, src_sname, src_tname, dst_sname, dst_tname, projection) ==
    [AssignInit("Alter", child, description, dst_sname, dst_tname) EXCEPT
        !.src_sname = src_sname, !.src_tname = src_tname,
        !.dst_sname = dst_sname, !.dst_tname = dst_tname,
        !.projection = projection]

\* the store after Assign.__init__ has run _assign_constraint_name on every dict
\* of description['keys'] and description['foreign_keys']
AssignStore(store, description, schema_name, table_name) ==
    [id \in 1..Len(store) |->
        IF id \in Range(description.keys) \cup Range(description.foreign_keys)
        THEN assign_constraint_name(schema_name, table_name, store[id])
        ELSE store[id]]

\* optimizer symbols of a Select formula
Comparison(operand1, operator, operand2) ==
    [operand1 |-> operand1, operator |-> operator, operand2 |-> operand2]
FormulaComparison(c) == [kind |-> "Comparison", comparisons |-> <<c>>]
FormulaConjunction(cs) == [kind |-> "Conjunction", comparisons |-> cs]
FormulaDisjunction(cs) == [kind |-> "Disjunction", comparisons |-> cs]

\* Select.__init__
SelectInit(child, formula) ==
    [NoOperator EXCEPT
        !.kind = "Select", !.child = child,
        !.comparisons = formula.comparisons,
        !.connector_fn = IF formula.kind = "Disjunction" THEN "any" ELSE "all"]

\* Select._eval_comparison
eval_comparison(row, comparison) ==
    Dunder(row[comparison.operand1], comparison.operator, comparison.operand2)

\* Select._eval_formula on a row that has every operand1
eval_formula(comparisons, connector_fn, row) ==
    IF Len(comparisons) = 0 THEN TRUE
    ELSE IF connector_fn = "any"
         THEN \E k \in 1..Len(comparisons) : Truthy(eval_comparison(row, comparisons[k]))
         ELSE \A k \in 1..Len(comparisons) : Truthy(eval_comparison(row, comparisons[k]))

\* HashDistinct.__init__
HashDistinctInit(child, attributes) ==
    [NoOperator EXCEPT !.kind = "HashDistinct", !.child = child, !.distinct_on = attributes]

\* Union.__init__
UnionInit(child, other) ==
    [NoOperator EXCEPT !.kind = "Union", !.child = child, !.other = other]

\* BufferedOperator.__init__
BufferedInit(child) ==
    [NoOperator EXCEPT !.kind = "Buffered", !.child = child, !.buffer = <<>>]

\* the columns and the renames one side contributes to a CrossJoin (lines
\* 602-609): [col_defs, renames]
RECURSIVE CrossJoinSide(_, _, _, _)
CrossJoinSide(col_defs, table_name, conflicts, acc) ==
    IF Len(col_defs) = 0 THEN acc
    ELSE LET col_def == Head(col_defs)
             new_name == table_name \o ":" \o col_def.name
         IN  IF col_def.name \in conflicts
             THEN CrossJoinSide(Tail(col_defs), table_name, conflicts,
                     [col_defs |-> Append(acc.col_defs, [col_def EXCEPT !.name = new_name]),
                      renames |-> ODictPut(acc.renames, new_name, col_def.name)])
             ELSE CrossJoinSide(Tail(col_defs), table_name, conflicts,
                     [acc EXCEPT !.col_defs = Append(@, col_def)])

\* CrossJoin.__init__
CrossJoinInit(left, right, left_def, right_def) ==
    LET conflicts == ColNames(left_def) \cap ColNames(right_def)
        l == CrossJoinSide(left_def.column_definitions, left_def.table_name, conflicts,
                           [col_defs |-> <<>>, renames |-> <<>>])
        r == CrossJoinSide(right_def.column_definitions, right_def.table_name, conflicts,
                           [col_defs |-> <<>>, renames |-> <<>>])
    IN  [NoOperator EXCEPT
            !.kind = "CrossJoin", !.left = left, !.right = right, !.own = TRUE,
            !.left_renames = l.renames, !.right_renames = r.renames,
            !.description = [table_name |-> left_def.table_name \o "_" \o right_def.table_name,
                             schema_name |-> NoSchema,
                             column_definitions |-> l.col_defs \o r.col_defs,
                             keys |-> <<>>, foreign_keys |-> <<>>]]

\* dict.update
Update(row, other) == [c \in DOMAIN row \cup DOMAIN other |-> IF c \in DOMAIN other THEN other[c] ELSE row[c]]

\* a Python list as the value of a column
PyList(s) == [type |-> "list", v |-> s]

\* Similarity scores are counted in tenths: 10 is the score 1.0, 0 the score 0.0.

\* a comparison that also takes a score equal to the best one
BetterOrEqual(similarity, best_match_score) == similarity <= best_match_score

\* `similarity < best_match_score`
Better(similarity, best_match_score) == similarity < best_match_score

\* NestedLoopsSimilarityJoin.__init__: CrossJoin.__init__, then the condition
SimilarityJoinInit(left, right, left_def, right_def, condition) ==
    [CrossJoinInit(left, right, left_def, right_def) EXCEPT
        !.kind = "NestedLoopsSimilarityJoin",
        !.target = condition.attribute, !.domain = condition.domain,
        !.synonyms = condition.synonyms, !.similarity_fn = condition.similarity_fn]

\* a scan that takes no match for the best possible one
NeverExact(score) == FALSE

\* `similarity == 0.0`, `best_match_score == 0.0`
IsExact(score) == score = 0

\* the loop over domain_and_synonyms of one right row (lines 660-666);
\* best = [score, row, found, err, calls], calls the values the similarity
\* function has returned for this left row, in the order of its calls
RECURSIVE ScanTerms(_, _, _, _, _)
ScanTerms(similarity_fn, target, terms, right_row, best) ==
    IF Len(terms) = 0 THEN best
    ELSE LET similarity == similarity_fn[<<target, Head(terms)>>]
             called == [best EXCEPT !.calls = Append(@, similarity)]
         IN  IF Better(similarity, best.score)
             THEN LET b == [called EXCEPT !.score = similarity, !.row = right_row, !.found = TRUE]
                  IN  IF IsExact(similarity) THEN b
                      ELSE ScanTerms(similarity_fn, target, Tail(terms), right_row, b)
             ELSE ScanTerms(similarity_fn, target, Tail(terms), right_row, called)

\* [right_row[domain]] + synonyms, an absent list of synonyms being []
DomainAndSynonyms(op, right_row) ==
    <<right_row[op.domain]>>
    \o (IF right_row[op.synonyms].type = "NoneType" THEN <<>> ELSE right_row[op.synonyms].v)

\* the loop over right_rows for one left row (lines 655-669)
RECURSIVE ScanRightRows(_, _, _, _)
ScanRightRows(op, target, right_rows, best) ==
    IF Len(right_rows) = 0 THEN best
    ELSE IF ~({op.domain, op.synonyms} \subseteq DOMAIN Head(right_rows))
    THEN [best EXCEPT !.err = TRUE]
    ELSE LET b == ScanTerms(op.similarity_fn, target,
                            DomainAndSynonyms(op, Head(right_rows)), Head(right_rows), best)
         IN  IF IsExact(b.score) THEN b
             ELSE ScanRightRows(op, target, Tail(right_rows), b)

\* what NestedLoopsSimilarityJoin.__iter__ yields for one left row
SimilarityJoinRow(op, left_row, right_rows) ==
    IF op.target \notin DOMAIN left_row
    THEN [rows |-> <<>>, err |-> "KeyError", calls |-> <<>>]
    ELSE LET best == ScanRightRows(op, left_row[op.target], right_rows,
                                   [score |-> 10, row |-> EmptyMap, found |-> FALSE,
                                    err |-> FALSE, calls |-> <<>>])
         IN  IF best.err THEN [rows |-> <<>>, err |-> "KeyError", calls |-> best.calls]
             ELSE IF ~best.found THEN [rows |-> <<>>, err |-> "none", calls |-> best.calls]
             ELSE LET l == rename_row_attributes(left_row, op.left_renames, TRUE)
                      r == rename_row_attributes(best.row, op.right_renames, TRUE)
                  IN  IF l.ok /\ r.ok
                      THEN [rows |-> <<Update(l.row, r.row)>>, err |-> "none",
                            calls |-> best.calls]
                      ELSE [rows |-> <<>>, err |-> "KeyError", calls |-> best.calls]

\* NestedLoopsSimilarityAggregation.__init__: the two assertions, then the
\* grouping columns of the child followed by its nesting columns as arrays
\* a constructor that takes any grouping and nesting
ArityUnchecked(grouping, nesting) == "none"

\* the assertions on grouping and nesting (lines 469-470)
ArityError(grouping, nesting) ==
    IF Len(grouping) # 1 \/ Len(nesting) > 1 THEN "AssertionError" ELSE "none"

AggregationInit(child, table_def, grouping, nesting, similarity_fn, n) ==
    IF ArityError(grouping, nesting) # "none"
    THEN [error |-> ArityError(grouping, nesting), op |-> NoOperator]
    ELSE LET kept(names) ==
                 SelectSeq(table_def.column_definitions, LAMBDA col : col.name \in Range(names))
             arrays == [k \in 1..Len(kept(nesting)) |->
                          [name |-> kept(nesting)[k].name,
                           type |-> kept(nesting)[k].type \o "[]",
                           default |-> "None"]]
         IN  [error |-> "none",
              op |-> [NoOperator EXCEPT
                        !.kind = "NestedLoopsSimilarityAggregation", !.child = child,
                        !.own = TRUE, !.grouping = grouping, !.nesting = nesting,
                        !.similarity_fn = similarity_fn,
                        !.description =
                            [table_name |-> table_def.table_name \o ":" \o UuidHex(n),
                             schema_name |-> NoSchema,
                             column_definitions |-> kept(grouping) \o arrays,
                             keys |-> <<>>, foreign_keys |-> <<>>]]]

\* candidate['member_of']: None, or the key of a group
Unassigned == [assigned |-> FALSE, key |-> ""]
MemberOf(key1) == [assigned |-> TRUE, key |-> key1]

\* bool(candidate['member_of']): None is false, and so is the key ''
PyBool(member_of) == member_of.assigned /\ member_of.key # ""

\* dict.get(key, default) on an ordered dict
ODictGet(od, k, default) ==
    IF \E j \in 1..Len(od) : od[j].key = k
    THEN od[CHOOSE j \in 1..Len(od) : od[j].key = k].val
    ELSE default

\* list(v) of a set v: the elements of v, each once; the order, that of the
\* set's hash table, is left out
ListOfSet(v) == [type |-> "list", of |-> v]

\* the loop over the candidates for one row (lines 515-525), from candidate i;
\* st = [member_of_list, groups, claims], claims being the assignments made to
\* candidate['member_of'] (line 518) in the order they are made
RECURSIVE ClaimCandidates(_, _, _, _, _)
ClaimCandidates(op, rows, key1, i, st) ==
    IF i > Len(rows) THEN st
    ELSE LET candidate == st.member_of_list[i]
         IN  IF ~PyBool(candidate.member_of) /\ op.similarity_fn[<<key1, candidate.key>>] < 10
             THEN LET group == IF Len(op.nesting) # 0
                               THEN ODictGet(st.groups, key1, {}) \cup {rows[i][op.nesting[1]]}
                               ELSE rows[i]
                  IN  ClaimCandidates(op, rows, key1, i + 1,
                         [member_of_list |-> [st.member_of_list EXCEPT ![i].member_of = MemberOf(key1)],
                          groups |-> ODictPut(st.groups, key1, group),
                          claims |-> Append(st.claims, [row |-> i, member_of |-> key1])])
             ELSE ClaimCandidates(op, rows, key1, i + 1, st)

\* the loop that accumulates the groups (lines 512-524), from row r
RECURSIVE AccumulateGroups(_, _, _, _)
AccumulateGroups(op, rows, r, st) ==
    IF r > Len(rows) THEN st
    ELSE AccumulateGroups(op, rows, r + 1,
            ClaimCandidates(op, rows, rows[r][op.grouping[1]], 1, st))

\* the cache of rows and the reverse index after the loop that reads the child
\* (lines 504-512), and the accumulation of the groups over them
GroupsOf(op, child_rows) ==
    AccumulateGroups(op, child_rows, 1,
        [member_of_list |-> [k \in 1..Len(child_rows) |->
                               [key |-> child_rows[k][op.grouping[1]],
                                member_of |-> Unassigned]],
         groups |-> <<>>,
         claims |-> <<>>])

\* NestedLoopsSimilarityAggregation.__iter__ over the rows of its child, which
\* it reads to the end before it yields
AggregationRows(op, child_rows, child_err) ==
    IF \E k \in 1..Len(child_rows) : op.grouping[1] \notin DOMAIN child_rows[k]
    THEN [rows |-> <<>>, err |-> "KeyError"]
    ELSE IF child_err # "none" THEN [rows |-> <<>>, err |-> child_err]
    ELSE IF \E k \in 1..Len(child_rows) :
               Len(op.nesting) # 0 /\ op.nesting[1] \notin DOMAIN child_rows[k]
    THEN [rows |-> <<>>, err |-> "KeyError"]
    ELSE LET st == GroupsOf(op, child_rows)
         IN  [rows |-> [k \in 1..Len(st.groups) |->
                          IF Len(op.nesting) # 0
                          THEN MapPut(MapPut(EmptyMap, op.grouping[1], st.groups[k].key),
                                      op.nesting[1], ListOfSet(st.groups[k].val))
                          ELSE st.groups[k].val],
              err |-> "none"]

-----------------------------------------------------------------------------
(* Iteration *)

\* a chaining that begins with the rows of the second operand
ChainOther(child_rows, other_rows) == other_rows \o child_rows

\* itertools.chain(child, other) of two iterations that end without error
Chain(child_rows, other_rows) == child_rows \o other_rows

\* `tuples = set()` at the start of HashDistinct.__iter__: kept is the set the
\* iteration before left
KeptTuples(kept) == kept

FreshTuples(kept) == {}

\* getter(row), for a row that has every attribute
TupleOf(row, distinct_on) == [k \in 1..Len(distinct_on) |-> row[distinct_on[k]]]

\* HashDistinct.__iter__ over rows that have every attribute: the rows whose
\* tuple no earlier row has
RECURSIVE DistinctRows(_, _, _)
DistinctRows(rows, distinct_on, tuples) ==
    IF Len(rows) = 0 THEN <<>>
    ELSE LET tuple_ == [k \in 1..Len(distinct_on) |-> Head(rows)[distinct_on[k]]]
         IN  IF tuple_ \notin tuples
             THEN <<Head(rows)>> \o DistinctRows(Tail(rows), distinct_on, tuples \cup {tuple_})
             ELSE DistinctRows(Tail(rows), distinct_on, tuples)

\* the longest prefix of rows in which every row has every name of names
RECURSIVE WellFormedPrefix(_, _)
WellFormedPrefix(rows, names) ==
    IF Len(rows) = 0 \/ ~(names \subseteq DOMAIN Head(rows)) THEN <<>>
    ELSE <<Head(rows)>> \o WellFormedPrefix(Tail(rows), names)

\* The body of the inner loop of Unnest.__iter__: the dict yielded and the row
\* of the child after it
UnnestRowInPlace(row, attribute, atom) ==
    [copy |-> MapPut(row, attribute, atom), row |-> MapPut(row, attribute, atom)]

UnnestRow(row, attribute, atom) ==
    [copy |-> MapPut(row, attribute, atom), row |-> row]

\* the unnesting functions of the model: value -> atoms
UnnestAtoms(unnest_fn, value) ==
    CASE unnest_fn = "none" -> <<>>
      [] unnest_fn = "one" -> <<value>>
      [] OTHER -> <<value, value + 100>>

\* One pass of a generator over the rows its child yields: Body(row) gives the
\* rows yielded for one child row, or the error raised on it.  The result is the
\* rows yielded and the error that ended the pass, "none" at exhaustion.
RECURSIVE Pass(_, _, _, _)
Pass(Body(_), rows, child_err, acc) ==
    IF Len(rows) = 0 THEN [rows |-> acc, err |-> child_err]
    ELSE LET b == Body(Head(rows))
         IN  IF b.err # "none" THEN [rows |-> acc \o b.rows, err |-> b.err]
             ELSE Pass(Body, Tail(rows), child_err, acc \o b.rows)

\* The generator of CrossJoin.__iter__ run from state g to its next yield.
\* g = [li, ri, mode, row, buffer, status]: the left row and the rows of the right
\* pass consumed, the branch of the right operand when it is a Buffered, the
\* dict held in `row`, the deque of that Buffered.  lrows and rrows are the rows
\* of the left relation and of the right base relation.
RECURSIVE CrossJoinAdvance(_, _, _, _, _)
CrossJoinAdvance(g, op, buffered, lrows, rrows) ==
    IF g.li = 0 \/ g.mode = "exhausted"
    THEN \* next round of the outer loop
         IF g.li + 1 > Len(lrows) THEN [g EXCEPT !.status = "done"]
         ELSE LET renamed == rename_row_attributes(lrows[g.li + 1], op.left_renames, TRUE)
              IN  IF ~renamed.ok THEN [g EXCEPT !.status = "KeyError"]
                  ELSE CrossJoinAdvance(
                          [g EXCEPT !.li = @ + 1, !.ri = 0, !.row = renamed.row,
                                    !.mode = IF ~buffered THEN "direct"
                                             ELSE IF Len(g.buffer) # 0 THEN "replay"
                                             ELSE "fill"],
                          op, buffered, lrows, rrows)
    ELSE LET source == IF g.mode = "replay" THEN g.buffer ELSE rrows
         IN  IF g.ri >= Len(source)
             THEN CrossJoinAdvance([g EXCEPT !.mode = "exhausted"], op, buffered, lrows, rrows)
             ELSE LET right_row == source[g.ri + 1]
                      renamed == rename_row_attributes(right_row, op.right_renames, FALSE)
                      filled == IF g.mode = "fill" THEN Append(g.buffer, right_row) ELSE g.buffer
                  IN  IF ~renamed.ok
                      THEN [g EXCEPT !.status = "KeyError", !.buffer = filled, !.ri = @ + 1]
                      ELSE [g EXCEPT !.status = "yield", !.buffer = filled, !.ri = @ + 1,
                                     !.row = Update(g.row, renamed.row)]

\* CrossJoin.__iter__ run to its end over the rows lrows and rrows: the rows it
\* yields and the error that ends it
RECURSIVE CrossJoinRun(_, _, _, _, _, _)
CrossJoinRun(g, op, buffered, lrows, rrows, out) ==
    LET n == CrossJoinAdvance([g EXCEPT !.status = ""], op, buffered, lrows, rrows)
    IN  IF n.status = "yield"
        THEN CrossJoinRun(n, op, buffered, lrows, rrows, Append(out, n.row))
        ELSE [rows |-> out, err |-> IF n.status = "done" THEN "none" ELSE n.status]

\* iter(operator i of plan) run to its end
RECURSIVE OpRows(_, _)
OpRows(plan, i) ==
    LET op == plan[i]
    IN  CASE op.kind = "TempVarRef" -> [rows |-> op.rows, err |-> "none"]
          [] op.kind = "Project" ->
                IF op.attributes \cup DOMAIN op.cname_to_alias = {}
                THEN [rows |-> <<>>, err |-> "TypeError"]
                ELSE LET c == OpRows(plan, op.child)
                         Body(row) ==
                            LET r == ProjectRow(op.attributes, op.alias_to_cname,
                                                op.cname_to_alias, row)
                            IN  IF r.ok THEN [rows |-> <<r.row>>, err |-> "none"]
                                ELSE [rows |-> <<>>, err |-> "KeyError"]
                     IN  Pass(Body, c.rows, c.err, <<>>)
          [] op.kind = "Unnest" ->
                LET c == OpRows(plan, op.child)
                    Body(row) ==
                        IF op.attribute \notin DOMAIN row
                        THEN [rows |-> <<>>, err |-> "KeyError"]
                        ELSE LET atoms == UnnestAtoms(op.unnest_fn, row[op.attribute])
                             IN  [rows |-> [k \in 1..Len(atoms) |->
                                              UnnestRow(row, op.attribute, atoms[k]).copy],
                                  err |-> "none"]
                IN  Pass(Body, c.rows, c.err, <<>>)
          [] op.kind = "Select" ->
                LET c == OpRows(plan, op.child)
                    Body(row) ==
                        IF \E k \in 1..Len(op.comparisons) :
                              op.comparisons[k].operand1 \notin DOMAIN row
                        THEN [rows |-> <<>>, err |-> "KeyError"]
                        ELSE [rows |-> IF eval_formula(op.comparisons, op.connector_fn, row)
                                       THEN <<row>> ELSE <<>>,
                              err |-> "none"]
                IN  Pass(Body, c.rows, c.err, <<>>)
          [] op.kind = "HashDistinct" ->
                IF Len(op.distinct_on) = 0
                THEN [rows |-> <<>>, err |-> "TypeError"]
                ELSE LET c == OpRows(plan, op.child)
                         good == WellFormedPrefix(c.rows, Range(op.distinct_on))
                     IN  [rows |-> DistinctRows(good, op.distinct_on, {}),
                          err |-> IF Len(good) < Len(c.rows) THEN "KeyError" ELSE c.err]
          [] op.kind = "Union" ->
                LET c == OpRows(plan, op.child)
                IN  IF c.err # "none" THEN c
                    ELSE LET o == OpRows(plan, op.other)
                         IN  [rows |-> Chain(c.rows, o.rows), err |-> o.err]
          [] op.kind = "NestedLoopsSimilarityJoin" ->
                LET r == OpRows(plan, op.right)
                    l == OpRows(plan, op.left)
                    Body(left_row) == SimilarityJoinRow(op, left_row, r.rows)
                IN  IF r.err # "none" THEN [rows |-> <<>>, err |-> r.err]
                    ELSE Pass(Body, l.rows, l.err, <<>>)
          [] op.kind = "NestedLoopsSimilarityAggregation" ->
                LET c == OpRows(plan, op.child)
                IN  AggregationRows(op, c.rows, c.err)
          [] op.kind = "CrossJoin" ->
                \* an error of the right operand ends the pass for the first left
                \* row; a filled buffer is replayed without asking the operand
                LET l == OpRows(plan, op.left)
                    r == OpRows(plan, op.right)
                    buffered == plan[op.right].kind = "Buffered"
                    replay == buffered /\ Len(plan[op.right].buffer) # 0
                    rerr == IF replay \/ Len(l.rows) = 0 THEN "none" ELSE r.err
                    lrows == IF rerr # "none" THEN SubSeq(l.rows, 1, 1) ELSE l.rows
                    run == CrossJoinRun(
                              [li |-> 0, ri |-> 0, mode |-> "", row |-> EmptyMap,
                               buffer |-> plan[op.right].buffer, status |-> ""],
                              op, buffered, lrows, r.rows, <<>>)
                IN  [rows |-> run.rows,
                     err |-> IF run.err # "none" THEN run.err
                             ELSE IF rerr # "none" THEN rerr ELSE l.err]
          [] OTHER -> OpRows(plan, op.child)

-----------------------------------------------------------------------------
(* The plans of the model *)

\* the base relation s:t
BaseColumns ==
    << [name |-> "RID", type |-> "ermrest_rid", default |-> "None"],
       [name |-> "a", type |-> "text", default |-> "None"],
       [name |-> "b", type |-> "int4", default |-> "0"] >>

\* its keys (RID) and (a, b) and its foreign key (b), as stored dicts 1..3
BaseStore ==
    << [columns |-> <<"RID">>, names |-> << <<"s", "t_RIDkey1">> >>, referenced |-> <<>>],
       [columns |-> <<"a", "b">>, names |-> << <<"s", "t_a_b_key">> >>, referenced |-> <<>>],
       [columns |-> <<"b">>, names |-> << <<"s", "t_b_fkey">> >>,
        referenced |-> <<"s", "u", <<"RID">> >>] >>

BaseDescription ==
    [table_name |-> "t", schema_name |-> "s", column_definitions |-> BaseColumns,
     keys |-> <<1, 2>>, foreign_keys |-> <<3>>]

Row(rid, a, b) == [c \in {"RID", "a", "b"} |-> IF c = "RID" THEN rid ELSE IF c = "a" THEN a ELSE b]

\* what fetch() returns
Payloads ==
    { <<>>,
      <<Row(1, 10, 20)>>,
      <<Row(1, 10, 20), Row(2, 11, 21)>>,
      <<Row(1, 10, 20), Row(2, 10, 20)>> }

ColumnNames == {"RID", "a", "b"}
AliasNames == {"x", "y", "a"}

\* the projection items of the model
ProjItems ==
    {ItemAll}
    \cup {ItemName(c) : c \in ColumnNames \cup {"z"}}
    \cup {ItemAlias(c, x) : c \in ColumnNames, x \in AliasNames}
    \cup {ItemDrop(c) : c \in {"a", "b"}}
    \cup {ItemAdd("n")}
    \cup {ItemIntrospect(attrs) : attrs \in {<<"a">>, <<"RID", "a">>}}
    \cup {ItemRemoval("b")}

\* pc, pos, out: the state of the consumer's iterator and the rows it was given;
\* mode: the branch a Buffered took; li, ri, row: the left row, the right row and
\* the dict a CrossJoin is at; li, ri, atoms: the child row, the atom and the
\* result of the unnesting function an Unnest is at; li, calls: the left row a
\* similarity join is at and, for each left row its last next() scanned, the
\* values its similarity function returned; refs, held: for each row a CrossJoin
\* yielded, which dict it is (the dict made for left row refs[k]) and what that
\* dict holds now
IdleIter ==
    [pc |-> "idle", pos |-> 0, out |-> <<>>, mode |-> "", li |-> 0, ri |-> 0, row |-> EmptyMap,
     atoms |-> <<>>, calls |-> <<>>, refs |-> <<>>, held |-> <<>>]

Top == Len(ops)

Init ==
    /\ \E rows \in Payloads : ops = <<TempVarRef(BaseDescription, rows)>>
    /\ cdefs = BaseStore
    /\ proj = <<>>
    /\ iter = IdleIter
    /\ raised = "none"
    /\ call = NoCall
    /\ introspected = FALSE
    /\ catalog = NoCatalog

\* the caller collects one more item for the projection of the next Project
AddItem(item) ==
    /\ iter.pc = "idle"
    /\ Len(ops) < MaxOps
    /\ Len(proj) < MaxProj
    /\ Description(ops, Top).schema_name # NoSchema
    /\ proj' = Append(proj, item)
    /\ UNCHANGED <<ops, cdefs, iter, raised, call, introspected, catalog>>

\* Project(top, proj): on an error no operator is built.  A description that
\* Table.define made has no 'schema_name': naming a copied key or foreign key
\* after it (lines 341, 362) fails.
ProjectOnTop ==
    /\ iter.pc = "idle"
    /\ LET table_def == DescriptionOf(ops, cdefs, Top)
           r == ProjectInit(table_def, proj)
           nk == Len(r.key_defs)
           nf == Len(r.fkey_defs)
           base == Len(cdefs)
           error == IF r.error # "none" THEN r.error
                    ELSE IF table_def.schema_name = NoSchema /\ nk + nf # 0 THEN "KeyError"
                    ELSE "none"
       IN  IF error # "none"
           THEN /\ raised' = error
                /\ UNCHANGED <<ops, cdefs>>
           ELSE /\ raised' = "none"
                /\ cdefs' = cdefs \o r.key_defs \o r.fkey_defs
                /\ ops' = Append(ops,
                        [NoOperator EXCEPT
                            !.kind = "Project", !.child = Top, !.own = TRUE,
                            !.projection = proj,
                            !.attributes = r.attributes,
                            !.alias_to_cname = r.alias_to_cname,
                            !.cname_to_alias = r.cname_to_alias,
                            !.description =
                                [table_name |-> tname_placeholder,
                                 schema_name |-> NoSchema,
                                 column_definitions |-> r.column_definitions,
                                 keys |-> [k \in 1..nk |-> base + k],
                                 foreign_keys |-> [k \in 1..nf |-> base + nk + k]]])
    /\ introspected' = ProjectInit(DescriptionOf(ops, cdefs, Top), proj).introspected
    /\ proj' = <<>>
    /\ UNCHANGED <<iter, call, catalog>>

\* Project over a relation that has a schema name
ConstructProject ==
    /\ Len(ops) < MaxOps
    /\ Description(ops, Top).schema_name # NoSchema
    /\ ProjectOnTop

\* Unnest(top, unnest_fn, attribute)
ConstructUnnest(unnest_fn, attribute) ==
    /\ iter.pc = "idle"
    /\ Len(ops) < MaxOps
    /\ proj = <<>>
    /\ ops' = Append(ops, UnnestInit(Top, Description(ops, Top), unnest_fn, attribute, Top + 1))
    /\ raised' = "none"
    /\ UNCHANGED <<cdefs, proj, iter, call, introspected, catalog>>

\* Assign / Create / Drop (top, schema_name, table_name)
ConstructAssign(kind, schema_name, table_name) ==
    /\ iter.pc = "idle"
    /\ Len(ops) < MaxOps
    /\ proj = <<>>
    /\ ops' = Append(ops, AssignInit(kind, Top, Description(ops, Top), schema_name, table_name))
    /\ cdefs' = AssignStore(cdefs, Description(ops, Top), schema_name, table_name)
    /\ raised' = "none"
    /\ UNCHANGED <<proj, iter, call, introspected, catalog>>

\* Alter(top, src_sname, src_tname, dst_sname, dst_tname, projection)
ConstructAlter(dst_sname, dst_tname, projection) ==
    /\ iter.pc = "idle"
    /\ Len(ops) < MaxOps
    /\ proj = <<>>
    /\ ops' = Append(ops, AlterInit(Top, Description(ops, Top), "s", "t",
                                    dst_sname, dst_tname, projection))
    /\ cdefs' = AssignStore(cdefs, Description(ops, Top), dst_sname, dst_tname)
    /\ raised' = "none"
    /\ UNCHANGED <<proj, iter, call, introspected, catalog>>

\* iter(top operator)
IterStart ==
    /\ iter.pc = "idle"
    /\ proj = <<>>
    /\ iter' = [IdleIter EXCEPT !.pc = "running"]
    /\ UNCHANGED <<ops, cdefs, proj, raised, call, introspected, catalog>>

\* next(iterator): the next row, StopIteration or the error of the pass
IterNext ==
    /\ iter.pc = "running"
    /\ ops[Top].kind # "Buffered"
    /\ LET r == OpRows(ops, Top)
       IN  IF iter.pos < Len(r.rows)
           THEN iter' = [iter EXCEPT !.pos = @ + 1, !.out = Append(@, r.rows[iter.pos + 1])]
           ELSE iter' = [iter EXCEPT !.pc = IF r.err = "none" THEN "done" ELSE r.err]
    /\ UNCHANGED <<ops, cdefs, proj, raised, call, introspected, catalog>>

\* the consumer drops the iterator
IterClose ==
    /\ iter.pc # "idle"
    /\ iter' = IdleIter
    /\ UNCHANGED <<ops, cdefs, proj, raised, call, introspected, catalog>>

Schemas == {"s", "s2"}

Next ==
    \/ \E item \in ProjItems : AddItem(item)
    \/ ConstructProject
    \/ \E f \in {"none", "one", "two"}, c \in {"a", "b"} : ConstructUnnest(f, c)
    \/ \E k \in {"Assign", "Create", "Drop"}, sn \in Schemas : ConstructAssign(k, sn, "T")
    \/ \E sn \in Schemas : ConstructAlter(sn, "T", <<ItemAll, ItemRemoval("b")>>)
    \/ IterStart
    \/ IterNext
    \/ IterClose

Spec == Init /\ [][Next]_vars

-----------------------------------------------------------------------------
(* Properties of Project *)

Projects == {i \in 1..Len(ops) : ops[i].kind = "Project"}

\* the description of the child as Project.__init__ read it and the rows the
\* child yields
ChildDescription(i) == DescriptionOf(ops, cdefs, ops[i].child)
ChildRows(i) == OpRows(ops, ops[i].child)

\* every row of the child holds every column the child's description lists
ChildRowsHaveColumns(i) ==
    \A k \in 1..Len(ChildRows(i).rows) :
        ColNames(ChildDescription(i)) \subseteq DOMAIN ChildRows(i).rows[k]

\* the projection as Project.__init__ reads it
GivenProjection(i) == IF Len(ops[i].projection) = 0 THEN <<ItemAll>> ELSE ops[i].projection

\* C1: every row a Project yields has exactly the column names of the
\* description of that Project as its keys, whatever the projection holds.
C1_RowKeysAreDescriptionColumns ==
    ops[Top].kind = "Project" =>
        \A k \in 1..Len(iter.out) : DOMAIN iter.out[k] = ColNames(Description(ops, Top))

\* C2: in every description of the plan the columns of every key and of every
\* foreign key are names of columns of that description.
C2_KeyColumnsAreColumns ==
    \A i \in 1..Len(ops) :
        LET d == DescriptionOf(ops, cdefs, i)
        IN  /\ \A k \in 1..Len(d.keys) : Range(d.keys[k].columns) \subseteq ColNames(d)
            /\ \A k \in 1..Len(d.foreign_keys) :
                  Range(d.foreign_keys[k].columns) \subseteq ColNames(d)

\* a column of the child survives in the output of Project i under its own name:
\* its definition stands in the output as it is
SurvivesByName(i, cname) ==
    \E k \in 1..Len(ChildDescription(i).column_definitions) :
        /\ ChildDescription(i).column_definitions[k].name = cname
        /\ cname \in ops[i].attributes
        /\ ChildDescription(i).column_definitions[k] \in Range(Description(ops, i).column_definitions)

\* ... or under an alias: the projection aliases it and the output has a column
\* of that alias
SurvivesByAlias(i, cname) ==
    /\ cname \in ColNames(ChildDescription(i))
    /\ \E k \in 1..Len(GivenProjection(i)) :
          LET item == GivenProjection(i)[k]
          IN  \/ /\ item.kind = "AttributeAlias"
                 /\ item.name = cname
                 /\ item.alias \in ColNames(Description(ops, i))
              \/ /\ item.kind = "IntrospectionFunction"
                 /\ cname = "RID"
                 /\ "RID" \in Range(item.attrs)
                 /\ (ChildDescription(i).table_name \o "_RID") \in ColNames(Description(ops, i))

Survives(i, cname) == SurvivesByName(i, cname) \/ SurvivesByAlias(i, cname)

\* the first alias the projection gives a column, the column's own name if none
RECURSIVE FirstAliasIn(_, _, _)
FirstAliasIn(projection, tname, cname) ==
    IF Len(projection) = 0 THEN cname
    ELSE LET item == Head(projection)
         IN  IF item.kind = "AttributeAlias" /\ item.name = cname THEN item.alias
             ELSE IF item.kind = "IntrospectionFunction" /\ cname = "RID"
                     /\ "RID" \in Range(item.attrs) THEN tname \o "_RID"
             ELSE FirstAliasIn(Tail(projection), tname, cname)

\* the keys of defs whose every column survives, their columns under the alias
RECURSIVE CarriedColumns(_, _)
CarriedColumns(i, defs) ==
    IF Len(defs) = 0 THEN <<>>
    ELSE (IF \A c \in Range(Head(defs).columns) : Survives(i, c)
          THEN << [k \in 1..Len(Head(defs).columns) |->
                     FirstAliasIn(GivenProjection(i), ChildDescription(i).table_name,
                                  Head(defs).columns[k])] >>
          ELSE <<>>)
         \o CarriedColumns(i, Tail(defs))

\* the foreign keys of the output that Project did not synthesize for an
\* IntrospectionFunction: those reference the child relation itself
RECURSIVE CopiedForeignKeys(_, _)
CopiedForeignKeys(fkeys, child) ==
    IF Len(fkeys) = 0 THEN <<>>
    ELSE (IF Len(Head(fkeys).referenced) = 3
             /\ Head(fkeys).referenced[1] = child.schema_name
             /\ Head(fkeys).referenced[2] = child.table_name
          THEN <<>> ELSE <<Head(fkeys)>>)
         \o CopiedForeignKeys(Tail(fkeys), child)

ColumnsOf(defs) == [k \in 1..Len(defs) |-> defs[k].columns]

\* the columns of every key and foreign key of the child are columns of the child
ChildKeysHaveColumns(i) ==
    \A k \in Range(ChildDescription(i).keys) \cup Range(ChildDescription(i).foreign_keys) :
        Range(k.columns) \subseteq ColNames(ChildDescription(i))

Items(i) == Range(GivenProjection(i))

\* dict restricted to the keys of names
Restrict(row, names) == [c \in names |-> row[c]]

\* the columns a projection of bare names and AllAttributes asks for
NamedColumns(i) ==
    {it.name : it \in {x \in Items(i) : x.kind = "str"}}
    \cup (IF ItemAll \in Items(i) THEN ColNames(ChildDescription(i)) ELSE {})

\* the subsequence of the column definitions with a name in names
RECURSIVE ColumnsNamed(_, _)
ColumnsNamed(col_defs, names) ==
    IF Len(col_defs) = 0 THEN <<>>
    ELSE (IF Head(col_defs).name \in names THEN <<Head(col_defs)>> ELSE <<>>)
         \o ColumnsNamed(Tail(col_defs), names)

\* a projection of AllAttributes and of names of columns of the child only
IsPlainProjection(i) ==
    /\ \A it \in Items(i) : it.kind \in {"str", "AllAttributes"}
    /\ NamedColumns(i) \subseteq ColNames(ChildDescription(i))

\* C4: a Project whose projection holds only names of columns of its child and
\* AllAttributes (an empty projection counts as AllAttributes), over a child
\* whose rows hold the columns of its description, yields one row per child
\* row, in order, that is the child row cut to the projected columns, and its
\* description lists exactly the child's definitions of those columns; with
\* AllAttributes these are all columns of the child.
C4_PlainProjection ==
    \A i \in Projects :
        (IsPlainProjection(i) /\ ChildRowsHaveColumns(i)) =>
            /\ OpRows(ops, i).err = ChildRows(i).err
            /\ OpRows(ops, i).rows =
                 [k \in 1..Len(ChildRows(i).rows) |-> Restrict(ChildRows(i).rows[k], NamedColumns(i))]
            /\ Description(ops, i).column_definitions =
                 ColumnsNamed(ChildDescription(i).column_definitions, NamedColumns(i))
            /\ (ItemAll \in Items(i) =>
                  /\ NamedColumns(i) = ColNames(ChildDescription(i))
                  /\ Len(OpRows(ops, i).rows) = Len(ChildRows(i).rows))

\* C4 witness: the iteration of Project(child, ('a',)) over two rows has ended
C4_Witness ==
    /\ ops[Top].kind = "Project"
    /\ ops[Top].projection = <<ItemName("a")>>
    /\ iter.pc = "done"
    /\ Len(iter.out) = 2
    /\ iter.out[1] # iter.out[2]

\* the aliases a projection gives column cname, the sources it aliases, and the
\* aliases it gives any other column
AliasesOf(i, cname) ==
    {it.alias : it \in {x \in Items(i) : x.kind = "AttributeAlias" /\ x.name = cname}}
    \cup (IF cname = "RID"
             /\ \E it \in Items(i) : it.kind = "IntrospectionFunction" /\ "RID" \in Range(it.attrs)
          THEN {ChildDescription(i).table_name \o "_RID"} ELSE {})

AliasSources(i) ==
    {it.name : it \in {x \in Items(i) : x.kind = "AttributeAlias"}}
    \cup (IF \E it \in Items(i) : it.kind = "IntrospectionFunction" /\ "RID" \in Range(it.attrs)
          THEN {"RID"} ELSE {})

OtherAliases(i, cname) ==
    {it.alias : it \in {x \in Items(i) : x.kind = "AttributeAlias" /\ x.name # cname}}
    \cup (IF cname # "RID"
             /\ \E it \in Items(i) : it.kind = "IntrospectionFunction" /\ "RID" \in Range(it.attrs)
          THEN {ChildDescription(i).table_name \o "_RID"} ELSE {})

\* the columns of the child that some item of the projection names
Mentioned(i) ==
    UNION {CASE it.kind = "AllAttributes" -> ColNames(ChildDescription(i))
             [] it.kind = "IntrospectionFunction" -> Range(it.attrs)
             [] it.kind = "AttributeAdd" -> {}
             [] OTHER -> {it.name} : it \in Items(i)}

\* the projection of Project i gives column cname several aliases, names that no
\* other item uses as a source or as the alias of another column
HasSeveralAliases(i, cname) ==
    /\ cname \in ColNames(ChildDescription(i))
    /\ Cardinality(AliasesOf(i, cname)) >= 2
    /\ AliasesOf(i, cname) \cap AliasSources(i) = {}
    /\ AliasesOf(i, cname) \cap OtherAliases(i, cname) = {}
    /\ cname \notin OtherAliases(i, cname)

\* C5: when the projection gives a column a several aliases, over a child whose
\* rows hold the columns of its description, every row of the Project holds
\* each alias with the value the child row has for a, does not hold a nor a
\* column of the child that the projection does not name, and the description
\* lists each alias and not a.
C5_SeveralAliases ==
    \A i \in Projects : \A a \in ColNames(ChildDescription(i)) :
        (HasSeveralAliases(i, a) /\ ChildRowsHaveColumns(i)) =>
            /\ AliasesOf(i, a) \subseteq ColNames(Description(ops, i))
            /\ a \notin ColNames(Description(ops, i))
            /\ Len(OpRows(ops, i).rows) = Len(ChildRows(i).rows)
            /\ \A k \in 1..Len(OpRows(ops, i).rows) :
                  LET row == OpRows(ops, i).rows[k]
                  IN  /\ \A x \in AliasesOf(i, a) :
                            x \in DOMAIN row /\ row[x] = ChildRows(i).rows[k][a]
                      /\ a \notin DOMAIN row
                      /\ DOMAIN row \subseteq
                            Mentioned(i) \cup AliasesOf(i, a) \cup OtherAliases(i, a)

\* C5 witness: Project(child, (AttributeAlias(a, x), AttributeAlias(a, y))) has
\* yielded a row for each of the two child rows
C5_Witness ==
    /\ ops[Top].kind = "Project"
    /\ ops[Top].projection = <<ItemAlias("a", "x"), ItemAlias("a", "y")>>
    /\ Len(iter.out) = 2
    /\ iter.out[2] = [c \in {"x", "y"} |-> 11]

\* C8: no step changes the description of an operator that exists: constructing
\* an operator on top of it (Assign, Create, Alter, Drop among them) and
\* iterating leave it as it was, the names of its keys and foreign keys included.
C8_DescriptionNeverChanges ==
    [][\A i \in 1..Len(ops) :
          DescriptionOf(ops', cdefs', i) = DescriptionOf(ops, cdefs, i)]_vars

-----------------------------------------------------------------------------
(* Plans of the operators that set no description: Select, HashDistinct,     *)
(* Union, Buffered                                                          *)

\* a second base relation s:u, the other side of a Union
OtherDescription ==
    [table_name |-> "u", schema_name |-> "s",
     column_definitions |-> << [name |-> "a", type |-> "int4", default |-> "None"],
                               [name |-> "b", type |-> "int4", default |-> "None"] >>,
     keys |-> <<>>, foreign_keys |-> <<>>]

\* the relation s:v the chain starts from, with the key (a, b) as stored dict 1
ValueDescription ==
    [table_name |-> "v", schema_name |-> "s",
     column_definitions |-> << [name |-> "a", type |-> "int4", default |-> "None"],
                               [name |-> "b", type |-> "int4", default |-> "None"] >>,
     keys |-> <<1>>, foreign_keys |-> <<>>]

ValueStore ==
    << [columns |-> <<"a", "b">>, names |-> << <<"s", "v_a_b_key">> >>, referenced |-> <<>>] >>

ValueRow(a, b) == [c \in {"a", "b"} |-> IF c = "a" THEN a ELSE b]

\* iterators of one HashDistinct, or of the child of one Buffered, that the
\* model follows
MaxRuns == 2

\* most rows of a relation of these plans
MaxRows == 2

ValueRows ==
    {ValueRow(PyInt(1), PyInt(1)), ValueRow(PyInt(1), PyInt(2)),
     ValueRow(PyInt(2), PyInt(1)), ValueRow(None, PyInt(1))}

RowSeqs(S, n) == UNION {[1..k -> S] : k \in 0..n}

Comparisons ==
    {Comparison("a", "eq", PyInt(1)), Comparison("b", "eq", PyInt(1)),
     Comparison("a", "lt", PyInt(2))}

Formulas ==
    {FormulaComparison(c) : c \in Comparisons}
    \cup {FormulaConjunction(cs) : cs \in RowSeqs(Comparisons, 2)}
    \cup {FormulaDisjunction(cs) : cs \in RowSeqs(Comparisons, 2)}

InitSelect ==
    /\ \E rows \in RowSeqs(ValueRows, MaxRows) :
          ops = <<TempVarRef(OtherDescription, <<ValueRow(PyInt(7), PyInt(7))>>),
                  TempVarRef(ValueDescription, rows)>>
    /\ cdefs = ValueStore
    /\ proj = <<>>
    /\ iter = IdleIter
    /\ raised = "none"
    /\ call = NoCall
    /\ introspected = FALSE
    /\ catalog = NoCatalog

\* an operator can be put on top of the plan: the plan has room, no iteration
\* runs, and the top is no Buffered (the rows of a Buffered are taken by the
\* consumer only)
CanStack ==
    /\ iter.pc = "idle"
    /\ Len(ops) < MaxOps + 1
    /\ ops[Top].kind # "Buffered"

ConstructSelect(formula) ==
    /\ CanStack
    /\ ops' = Append(ops, SelectInit(Top, formula))
    /\ UNCHANGED <<cdefs, proj, iter, raised, call, introspected, catalog>>

ConstructHashDistinct(attributes) ==
    /\ CanStack
    /\ ops' = Append(ops, HashDistinctInit(Top, attributes))
    /\ UNCHANGED <<cdefs, proj, iter, raised, call, introspected, catalog>>

\* Union(top, the other base relation)
ConstructUnion ==
    /\ CanStack
    /\ ops' = Append(ops, UnionInit(Top, 1))
    /\ UNCHANGED <<cdefs, proj, iter, raised, call, introspected, catalog>>

ConstructBuffered ==
    /\ CanStack
    /\ ops' = Append(ops, BufferedInit(Top))
    /\ UNCHANGED <<cdefs, proj, iter, raised, call, introspected, catalog>>

\* Assign(top, schema_name, table_name) in these plans
StackAssign(schema_name, table_name) ==
    /\ CanStack
    /\ ops' = Append(ops, AssignInit("Assign", Top, Description(ops, Top), schema_name, table_name))
    /\ cdefs' = AssignStore(cdefs, Description(ops, Top), schema_name, table_name)
    /\ UNCHANGED <<proj, iter, raised, call, introspected, catalog>>

\* next() on the iterator of a Buffered: the first call finds the buffer filled
\* or empty; the rows of a filled buffer are replayed, else the rows of the child
\* are appended to the buffer as they are yielded.  runs counts the iterators
\* the child was asked for, exhausted those of them that came to their end.
BufferedNext ==
    /\ iter.pc = "running"
    /\ ops[Top].kind = "Buffered"
    /\ LET mode == IF iter.mode # "" THEN iter.mode
                   ELSE IF Len(ops[Top].buffer) # 0 THEN "replay" ELSE "fill"
           r == OpRows(ops, ops[Top].child)
           asked == IF iter.mode = "" /\ mode = "fill" THEN 1 ELSE 0
       IN  IF asked = 1 /\ ops[Top].runs >= MaxRuns
           THEN FALSE
           ELSE IF mode = "replay"
           THEN /\ IF iter.pos < Len(ops[Top].buffer)
                   THEN iter' = [iter EXCEPT !.pos = @ + 1, !.mode = mode,
                                             !.out = Append(@, ops[Top].buffer[iter.pos + 1])]
                   ELSE iter' = [iter EXCEPT !.pc = "done", !.mode = mode]
                /\ ops' = ops
           ELSE IF iter.pos < Len(r.rows)
                THEN /\ iter' = [iter EXCEPT !.pos = @ + 1, !.mode = mode,
                                             !.out = Append(@, r.rows[iter.pos + 1])]
                     /\ ops' = [ops EXCEPT ![Top].buffer = Append(@, r.rows[iter.pos + 1]),
                                           ![Top].runs = @ + asked]
                ELSE /\ iter' = [iter EXCEPT !.mode = mode,
                                             !.pc = IF r.err = "none" THEN "done" ELSE r.err]
                     /\ ops' = [ops EXCEPT ![Top].runs = @ + asked,
                                           ![Top].exhausted = IF r.err = "none" THEN @ + 1 ELSE @]
    /\ UNCHANGED <<cdefs, proj, raised, call, introspected, catalog>>

NextSelect ==
    \/ \E f \in Formulas : ConstructSelect(f)
    \/ \E attrs \in {<<"a">>, <<"a", "b">>} : ConstructHashDistinct(attrs)
    \/ ConstructUnion
    \/ ConstructBuffered
    \/ \E sn \in Schemas : StackAssign(sn, "T")
    \/ IterStart
    \/ IterNext
    \/ BufferedNext
    \/ IterClose

SpecSelect == InitSelect /\ [][NextSelect]_vars

-----------------------------------------------------------------------------
(* Properties of Select and of the operators without a description *)

\* the relational operator holds between a value of a row and a literal
Holds(value, operator, operand2) ==
    IF IsInt(value) /\ IsInt(operand2)
    THEN CASE operator = "eq" -> value.v = operand2.v
           [] operator = "ne" -> value.v # operand2.v
           [] operator = "lt" -> value.v < operand2.v
           [] operator = "le" -> value.v <= operand2.v
           [] operator = "gt" -> value.v > operand2.v
           [] OTHER -> value.v >= operand2.v
    ELSE IF operator = "eq" THEN value = operand2
    ELSE IF operator = "ne" THEN value # operand2
    ELSE FALSE

\* a row satisfies the formula of Select i
Satisfies(i, row) ==
    LET cs == ops[i].comparisons
    IN  IF Len(cs) = 0 THEN TRUE
        ELSE IF ops[i].connector_fn = "any"
             THEN \E k \in 1..Len(cs) : Holds(row[cs[k].operand1], cs[k].operator, cs[k].operand2)
             ELSE \A k \in 1..Len(cs) : Holds(row[cs[k].operand1], cs[k].operator, cs[k].operand2)

RECURSIVE SatisfyingRows(_, _)
SatisfyingRows(i, rows) ==
    IF Len(rows) = 0 THEN <<>>
    ELSE (IF Satisfies(i, Head(rows)) THEN <<Head(rows)>> ELSE <<>>)
         \o SatisfyingRows(i, Tail(rows))

\* C6: a Select iterated to its end has yielded exactly the rows of its child
\* that satisfy its formula, in the child's order: the single comparison, every
\* comparison of a conjunction, some comparison of a disjunction, and every row
\* when the formula holds no comparison.
C6_SelectYieldsSatisfyingRows ==
    (ops[Top].kind = "Select" /\ iter.pc = "done") =>
        iter.out = SatisfyingRows(Top, OpRows(ops, ops[Top].child).rows)

PassThroughKinds == {"Select", "HashDistinct", "Buffered", "Union"}

\* C7: the description of a Select, HashDistinct, Buffered or Union is the
\* description of its (first) child, whatever its formula or parameter, and no
\* step of an iteration changes it: it is the same before, during and after.
C7_PassThroughDescription ==
    [][\A i \in 1..Len(ops') :
          ops'[i].kind \in PassThroughKinds =>
              /\ DescriptionOf(ops', cdefs', i) = DescriptionOf(ops', cdefs', ops'[i].child)
              /\ (Len(ops') = Len(ops) =>
                    DescriptionOf(ops', cdefs', i) = DescriptionOf(ops, cdefs, i))]_vars

\* C7 witness: the iteration of a Union on top of a Select has ended with rows
\* of both sides yielded, the description read being that of the base relation
C7_Witness ==
    /\ Len(ops) = 4
    /\ ops[3].kind = "Select"
    /\ ops[4].kind = "Union"
    /\ iter.pc = "done"
    /\ Len(iter.out) >= 2
    /\ DescriptionOf(ops, cdefs, 4) = View(ValueDescription, ValueStore)

-----------------------------------------------------------------------------
(* Plans of CrossJoin *)

\* column definitions of the given names
TextColumns(names) == [k \in 1..Len(names) |-> [name |-> names[k], type |-> "text", default |-> "None"]]

JoinRelation(table_name, names) ==
    [table_name |-> table_name, schema_name |-> "s",
     column_definitions |-> TextColumns(names), keys |-> <<>>, foreign_keys |-> <<>>]

\* row k of a relation: every column has a value of its own, base + 10 * k + the
\* place of the column
JoinRow(names, base, k) ==
    [c \in Range(names) |-> base + 10 * k + (CHOOSE j \in 1..Len(names) : names[j] = c)]

JoinRows(names, base, n) == [k \in 1..n |-> JoinRow(names, base, k)]

LeftColumns == {<<"c">>, <<"c", "d">>, <<"c", "t:c">>}
RightColumns == {<<"c">>, <<"e">>, <<"c", "e">>, <<"t:c", "c">>}

InitJoin ==
    /\ \E lc \in LeftColumns, rc \in RightColumns, rt \in {"t", "u"},
          nl \in 0..MaxRows, nr \in 0..MaxRows :
          ops = <<TempVarRef(JoinRelation("t", lc), JoinRows(lc, 100, nl)),
                  TempVarRef(JoinRelation(rt, rc), JoinRows(rc, 500, nr))>>
    /\ cdefs = <<>>
    /\ proj = <<>>
    /\ iter = IdleIter
    /\ raised = "none"
    /\ call = NoCall
    /\ introspected = FALSE
    /\ catalog = NoCatalog

\* BufferedOperator(right relation)
BufferRight ==
    /\ iter.pc = "idle"
    /\ Len(ops) = 2
    /\ ops' = Append(ops, BufferedInit(2))
    /\ UNCHANGED <<cdefs, proj, iter, raised, call, introspected, catalog>>

\* CrossJoin(left relation, right relation or its buffer)
ConstructCrossJoin ==
    /\ iter.pc = "idle"
    /\ Len(ops) \in {2, 3}
    /\ ops[Top].kind # "CrossJoin"
    /\ ops' = Append(ops, CrossJoinInit(1, Top, Description(ops, 1), Description(ops, Top)))
    /\ UNCHANGED <<cdefs, proj, iter, raised, call, introspected, catalog>>

\* next() on the iterator of the CrossJoin on top of the plan; `row` is one dict
\* for all the right rows of a left row (line 629), update() changes it in place
\* (line 632) and every yield of that round hands out the same dict
CrossJoinNext ==
    /\ iter.pc = "running"
    /\ ops[Top].kind = "CrossJoin"
    /\ LET op == ops[Top]
           buffered == ops[op.right].kind = "Buffered"
           g == CrossJoinAdvance(
                   [li |-> iter.li, ri |-> iter.ri, mode |-> iter.mode, row |-> iter.row,
                    buffer |-> ops[op.right].buffer, status |-> ""],
                   op, buffered, OpRows(ops, op.left).rows, OpRows(ops, 2).rows)
       IN  /\ iter' = [pc |-> IF g.status = "yield" THEN "running" ELSE g.status,
                       pos |-> IF g.status = "yield" THEN iter.pos + 1 ELSE iter.pos,
                       out |-> IF g.status = "yield" THEN Append(iter.out, g.row) ELSE iter.out,
                       mode |-> g.mode, li |-> g.li, ri |-> g.ri, row |-> g.row,
                       atoms |-> <<>>, calls |-> <<>>,
                       refs |-> IF g.status = "yield" THEN Append(iter.refs, g.li) ELSE iter.refs,
                       held |-> IF g.status = "yield"
                                THEN [k \in 1..Len(iter.refs) + 1 |->
                                        IF Append(iter.refs, g.li)[k] = g.li THEN g.row
                                        ELSE iter.held[k]]
                                ELSE iter.held]
           /\ ops' = [ops EXCEPT ![op.right].buffer = g.buffer]
    /\ UNCHANGED <<cdefs, proj, raised, call, introspected, catalog>>

NextJoin ==
    \/ BufferRight
    \/ ConstructCrossJoin
    \/ IterStart
    \/ CrossJoinNext
    \/ IterClose

SpecJoin == InitJoin /\ [][NextJoin]_vars

-----------------------------------------------------------------------------
(* Properties of CrossJoin *)

CrossJoins == {i \in 1..Len(ops) : ops[i].kind = "CrossJoin"}

\* the name the description of a CrossJoin is to give column c of a side whose
\* table is table_name
Composed(table_name, c, conflicts) == IF c \in conflicts THEN table_name \o ":" \o c ELSE c

Conflicts(i) ==
    ColNames(Description(ops, ops[i].left)) \cap ColNames(Description(ops, ops[i].right))

\* C9: in the description of a CrossJoin every column name present on both
\* sides is replaced, on each side, by "<table name of the side>:<column name>"
\* and no longer appears under its bare name; the columns are the left ones
\* followed by the right ones, and there are no keys and no foreign keys.
C9_ConflictsAreRenamed ==
    \A i \in CrossJoins :
        LET left == Description(ops, ops[i].left)
            right == Description(ops, ops[i].right)
            desc == Description(ops, i)
        IN  /\ ColNameSeq(desc) =
                   SeqMap(LAMBDA c : Composed(left.table_name, c, Conflicts(i)), ColNameSeq(left))
                   \o SeqMap(LAMBDA c : Composed(right.table_name, c, Conflicts(i)), ColNameSeq(right))
            /\ Conflicts(i) \cap ColNames(desc) = {}
            /\ desc.keys = <<>>
            /\ desc.foreign_keys = <<>>

\* C10: a CrossJoin whose right operand can be iterated again, or is buffered,
\* yields one row per pair (left row, right row), left-major, and each row has
\* exactly the columns of the left row and of the right row, each under its
\* renamed name and with the value it has in that pair.
C10_OneRowPerPair ==
    (ops[Top].kind = "CrossJoin" /\ iter.pc = "done") =>
        LET left == Description(ops, ops[Top].left)
            right == Description(ops, ops[Top].right)
            lrows == OpRows(ops, 1).rows
            rrows == OpRows(ops, 2).rows
        IN  /\ Len(iter.out) = Len(lrows) * Len(rrows)
            /\ \A l \in 1..Len(lrows), r \in 1..Len(rrows) :
                  LET row == iter.out[(l - 1) * Len(rrows) + r]
                      lname(c) == Composed(left.table_name, c, Conflicts(Top))
                      rname(c) == Composed(right.table_name, c, Conflicts(Top))
                  IN  /\ DOMAIN row = {lname(c) : c \in DOMAIN lrows[l]}
                                      \cup {rname(c) : c \in DOMAIN rrows[r]}
                      /\ \A c \in DOMAIN lrows[l] : row[lname(c)] = lrows[l][c]
                      /\ \A c \in DOMAIN rrows[r] : row[rname(c)] = rrows[r][c]

-----------------------------------------------------------------------------
(* Plans of NestedLoopsSimilarityJoin *)

\* the values of the target column of the left relation and the terms of the
\* right relation
Names == {"a", "b"}
Terms == {"p", "q", "r"}

\* the similarity functions: any score of 0.0, 0.5 or 1.0 for any pair
Scores == {0, 5, 10}
SimilarityFns == [Names \X Terms -> Scores]

\* left relation l(id, name), right relation r(id, term, syn)
LeftRelation == JoinRelation("l", <<"id", "name">>)
RightRelation == JoinRelation("r", <<"id", "term", "syn">>)

LeftRow(k, name) == [c \in {"id", "name"} |-> IF c = "id" THEN PyInt(k) ELSE name]

\* the right rows: one without synonyms, one with one, one with two
RightRowP == [c \in {"id", "term", "syn"} |->
                IF c = "id" THEN PyInt(7) ELSE IF c = "term" THEN "p" ELSE None]
RightRowQ == [c \in {"id", "term", "syn"} |->
                IF c = "id" THEN PyInt(8) ELSE IF c = "term" THEN "q" ELSE PyList(<<"r">>)]
RightRowR == [c \in {"id", "term", "syn"} |->
                IF c = "id" THEN PyInt(9) ELSE IF c = "term" THEN "r" ELSE PyList(<<"q", "p">>)]

InitSimilarityJoin ==
    /\ \E nl \in 0..MaxRows, nr \in 0..MaxRows :
       \E names \in [1..nl -> Names], rrows \in [1..nr -> {RightRowP, RightRowQ, RightRowR}] :
          ops = <<TempVarRef(LeftRelation, [k \in 1..nl |-> LeftRow(k, names[k])]),
                  TempVarRef(RightRelation, rrows)>>
    /\ cdefs = <<>>
    /\ proj = <<>>
    /\ iter = IdleIter
    /\ raised = "none"
    /\ call = NoCall
    /\ introspected = FALSE
    /\ catalog = NoCatalog

\* NestedLoopsSimilarityJoin(left, right, Similar('name', 'term', 'syn', similarity_fn))
ConstructSimilarityJoin(similarity_fn) ==
    /\ iter.pc = "idle"
    /\ Len(ops) = 2
    /\ ops' = Append(ops, SimilarityJoinInit(1, 2, Description(ops, 1), Description(ops, 2),
                            [attribute |-> "name", domain |-> "term", synonyms |-> "syn",
                             similarity_fn |-> similarity_fn]))
    /\ UNCHANGED <<cdefs, proj, iter, raised, call, introspected, catalog>>

NextSimilarityJoin ==
    \/ \E similarity_fn \in SimilarityFns : ConstructSimilarityJoin(similarity_fn)
    \/ IterStart
    \/ IterNext
    \/ IterClose

SpecSimilarityJoin == InitSimilarityJoin /\ [][NextSimilarityJoin]_vars

\* The generator of NestedLoopsSimilarityJoin.__iter__ run to its next yield,
\* li left rows consumed: [status, li, row, calls]
RECURSIVE SimilarityJoinAdvance(_, _, _, _, _)
SimilarityJoinAdvance(op, lrows, rrows, li, calls) ==
    IF li >= Len(lrows) THEN [status |-> "done", li |-> li, row |-> EmptyMap, calls |-> calls]
    ELSE LET r == SimilarityJoinRow(op, lrows[li + 1], rrows)
             called == Append(calls, r.calls)
         IN  IF r.err # "none"
             THEN [status |-> r.err, li |-> li + 1, row |-> EmptyMap, calls |-> called]
             ELSE IF Len(r.rows) # 0
             THEN [status |-> "yield", li |-> li + 1, row |-> r.rows[1], calls |-> called]
             ELSE SimilarityJoinAdvance(op, lrows, rrows, li + 1, called)

\* next() on the iterator of the similarity join on top of the plan
SimilarityJoinNext ==
    /\ iter.pc = "running"
    /\ ops[Top].kind = "NestedLoopsSimilarityJoin"
    /\ LET g == SimilarityJoinAdvance(ops[Top], OpRows(ops, ops[Top].left).rows,
                                      OpRows(ops, ops[Top].right).rows, iter.li, <<>>)
       IN  iter' = [iter EXCEPT !.pc = IF g.status = "yield" THEN "running" ELSE g.status,
                                !.li = g.li, !.calls = g.calls,
                                !.pos = IF g.status = "yield" THEN @ + 1 ELSE @,
                                !.out = IF g.status = "yield" THEN Append(@, g.row) ELSE @]
    /\ UNCHANGED <<ops, cdefs, proj, raised, call, introspected, catalog>>

NextSimilarityScan ==
    \/ \E similarity_fn \in SimilarityFns : ConstructSimilarityJoin(similarity_fn)
    \/ IterStart
    \/ SimilarityJoinNext
    \/ IterClose

SpecSimilarityScan == InitSimilarityJoin /\ [][NextSimilarityScan]_vars

-----------------------------------------------------------------------------
(* Properties of NestedLoopsSimilarityJoin *)

MinOf(S) == CHOOSE x \in S : \A y \in S : x <= y

\* the score of a right row for a target: the least similarity over its domain
\* value and its synonyms
RowScore(i, target, right_row) ==
    MinOf({ops[i].similarity_fn[<<target, term>>] :
              term \in Range(DomainAndSynonyms(ops[i], right_row))})

\* the row that joins left_row and right_row under the names of the description
Joined(i, left_row, right_row) ==
    LET lt == Description(ops, ops[i].left).table_name
        rt == Description(ops, ops[i].right).table_name
        lname(c) == Composed(lt, c, Conflicts(i))
        rname(c) == Composed(rt, c, Conflicts(i))
    IN  [n \in {lname(c) : c \in DOMAIN left_row} \cup {rname(c) : c \in DOMAIN right_row} |->
            IF \E c \in DOMAIN right_row : rname(c) = n
            THEN right_row[CHOOSE c \in DOMAIN right_row : rname(c) = n]
            ELSE left_row[CHOOSE c \in DOMAIN left_row : lname(c) = n]]

\* the rows a similarity join is to yield: per left row, the join with the first
\* of its best-scoring right rows when that score is below 1.0, else nothing
RECURSIVE BestMatches(_, _, _)
BestMatches(i, lrows, rrows) ==
    IF Len(lrows) = 0 THEN <<>>
    ELSE LET target == Head(lrows)[ops[i].target]
             scores == {RowScore(i, target, rrows[k]) : k \in 1..Len(rrows)}
             best == IF scores = {} THEN 10 ELSE MinOf(scores)
             first == CHOOSE k \in 1..Len(rrows) :
                         /\ RowScore(i, target, rrows[k]) = best
                         /\ \A j \in 1..(k - 1) : RowScore(i, target, rrows[j]) # best
         IN  (IF best < 10 THEN <<Joined(i, Head(lrows), rrows[first])>> ELSE <<>>)
             \o BestMatches(i, Tail(lrows), rrows)

\* C11: a NestedLoopsSimilarityJoin iterated to its end has yielded, in left
\* order, at most one row per left row: the left row joined to its best-scoring
\* right row (least similarity over the right row's domain value and synonyms)
\* if and only if that score is below 1.0, and nothing for a left row that has
\* no score below 1.0.
C11_BestMatchBelowOne ==
    (ops[Top].kind = "NestedLoopsSimilarityJoin" /\ iter.pc = "done") =>
        /\ iter.out = BestMatches(Top, OpRows(ops, 1).rows, OpRows(ops, 2).rows)
        /\ Len(iter.out) <= Len(OpRows(ops, 1).rows)

\* C11 witness: of two left rows the first found nothing below 1.0 and the
\* second was joined to the second right row on a synonym, a better score than
\* the nonzero score of the first right row
C11_Witness ==
    /\ ops[Top].kind = "NestedLoopsSimilarityJoin"
    /\ iter.pc = "done"
    /\ Len(ops[1].rows) = 2
    /\ Len(ops[2].rows) = 2
    /\ Len(iter.out) = 1
    /\ iter.out[1]["l:id"] = PyInt(2)
    /\ iter.out[1]["r:id"] = ops[2].rows[2]["id"]
    /\ ops[2].rows[1] # ops[2].rows[2]
    /\ RowScore(Top, ops[1].rows[2]["name"], ops[2].rows[1]) = 5
    /\ ops[Top].similarity_fn[<<ops[1].rows[2]["name"], ops[2].rows[2]["term"]>>] = 10

-----------------------------------------------------------------------------
(* Plans of NestedLoopsSimilarityAggregation *)

\* the grouping keys, the empty string among them, and the nesting values
Keys == {"", "a", "b"}
Nested == {1, 2}

\* the similarity functions on keys: symmetric, 0.0 for a key and itself
KeySimilarityFns ==
    {f \in [Keys \X Keys -> Scores] :
        \A x, y \in Keys : f[<<x, y>>] = f[<<y, x>>] /\ f[<<x, x>>] = 0}

\* relation g(key, val)
GroupRelation == JoinRelation("g", <<"key", "val">>)

GroupRow(key, val) == [c \in {"key", "val"} |-> IF c = "key" THEN key ELSE val]

InitAggregation ==
    /\ \E n \in 0..(MaxRows + 1) : \E keys \in [1..n -> Keys], vals \in [1..n -> Nested] :
          ops = <<TempVarRef(GroupRelation, [k \in 1..n |-> GroupRow(keys[k], vals[k])])>>
    /\ cdefs = <<>>
    /\ proj = <<>>
    /\ iter = IdleIter
    /\ raised = "none"
    /\ call = NoCall
    /\ introspected = FALSE
    /\ catalog = NoCatalog

\* NestedLoopsSimilarityAggregation(child, grouping, nesting, similarity_fn, None)
ConstructAggregation(grouping, nesting, similarity_fn) ==
    /\ iter.pc = "idle"
    /\ Len(ops) = 1
    /\ LET r == AggregationInit(1, Description(ops, 1), grouping, nesting, similarity_fn, 1)
       IN  IF r.error # "none"
           THEN raised' = r.error /\ UNCHANGED ops
           ELSE raised' = "none" /\ ops' = Append(ops, r.op)
    /\ UNCHANGED <<cdefs, proj, iter, call, introspected, catalog>>

Groupings == {<<>>, <<"key">>, <<"key", "val">>}
Nestings == {<<>>, <<"val">>, <<"val", "key">>}

NextAggregation ==
    \/ \E grouping \in Groupings, nesting \in Nestings, similarity_fn \in KeySimilarityFns :
          ConstructAggregation(grouping, nesting, similarity_fn)
    \/ IterStart
    \/ IterNext
    \/ IterClose

SpecAggregation == InitAggregation /\ [][NextAggregation]_vars

-----------------------------------------------------------------------------
(* Properties of NestedLoopsSimilarityAggregation *)

\* the rows whose key is less than 1.0 similar to the key of row c, as
\* representative and candidate
SimilarRows(i, rows, c) ==
    {r \in 1..Len(rows) :
        ops[i].similarity_fn[<<rows[r][ops[i].grouping[1]], rows[c][ops[i].grouping[1]]>>] < 10}

\* the first of them in child order
FirstSimilar(i, rows, c) == MinOf(SimilarRows(i, rows, c))

\* the groups an aggregation with a nesting attribute is to yield: one per row
\* that is the first similar row of some row, with the distinct nesting values
\* of the rows it is the first similar row of
FirstMatchGroups(i, rows) ==
    LET grouped == {c \in 1..Len(rows) : SimilarRows(i, rows, c) # {}}
        representatives == {FirstSimilar(i, rows, c) : c \in grouped}
    IN  {MapPut(MapPut(EmptyMap, ops[i].grouping[1], rows[r][ops[i].grouping[1]]),
                ops[i].nesting[1],
                ListOfSet({rows[c][ops[i].nesting[1]] :
                              c \in {x \in grouped : FirstSimilar(i, rows, x) = r}})) :
            r \in representatives}

\* C12: a NestedLoopsSimilarityAggregation with a nesting attribute, iterated to
\* its end, has yielded one row per group, a group being the rows whose first
\* similar row (key less than 1.0 similar, in child order) is the same row: the
\* row holds the key of that representative and the distinct nesting values of
\* exactly the rows of the group.
C12_FirstMatchGroups ==
    (ops[Top].kind = "NestedLoopsSimilarityAggregation" /\ Len(ops[Top].nesting) = 1
     /\ iter.pc = "done") =>
        /\ Range(iter.out) = FirstMatchGroups(Top, OpRows(ops, 1).rows)
        /\ Len(iter.out) = Cardinality(FirstMatchGroups(Top, OpRows(ops, 1).rows))

-----------------------------------------------------------------------------
(* Properties of Unnest *)

Unnests == {i \in 1..Len(ops) : ops[i].kind = "Unnest"}

\* C13: the description of an Unnest has the column definitions of its child's
\* description, and none of its keys and foreign keys is on the unnested
\* attribute.
C13_UnnestDescription ==
    \A i \in Unnests :
        LET d == DescriptionOf(ops, cdefs, i)
        IN  /\ d.column_definitions = DescriptionOf(ops, cdefs, ops[i].child).column_definitions
            /\ \A k \in Range(d.keys) \cup Range(d.foreign_keys) :
                  ops[i].attribute \notin Range(k.columns)

-----------------------------------------------------------------------------
(* Plans of Unnest, iterated row by row *)

\* The generator of Unnest.__iter__ run from state g = [li, ri, atoms, status] to
\* its next yield: li the child row it is at, ri the atoms of it already yielded
RECURSIVE UnnestAdvance(_, _, _, _)
UnnestAdvance(g, op, rows, child_err) ==
    IF g.li # 0 /\ g.ri < Len(g.atoms) THEN [g EXCEPT !.status = "yield", !.ri = @ + 1]
    ELSE IF g.li + 1 > Len(rows)
    THEN [g EXCEPT !.status = IF child_err = "none" THEN "done" ELSE child_err]
    ELSE IF op.attribute \notin DOMAIN rows[g.li + 1] THEN [g EXCEPT !.status = "KeyError"]
    ELSE UnnestAdvance([g EXCEPT !.li = @ + 1, !.ri = 0,
                                 !.atoms = UnnestAtoms(op.unnest_fn, rows[g.li + 1][op.attribute])],
                       op, rows, child_err)

\* next() on the iterator of the Unnest on top of the plan; the rows of a
\* TempVarRef child are the dicts of its list, which outlive the step
UnnestNext ==
    /\ iter.pc = "running"
    /\ ops[Top].kind = "Unnest"
    /\ LET op == ops[Top]
           c == OpRows(ops, op.child)
           g == UnnestAdvance([li |-> iter.li, ri |-> iter.ri, atoms |-> iter.atoms,
                               status |-> ""], op, c.rows, c.err)
       IN  IF g.status = "yield"
           THEN LET u == UnnestRow(c.rows[g.li], op.attribute, g.atoms[g.ri])
                IN  /\ iter' = [iter EXCEPT !.pos = @ + 1, !.out = Append(@, u.copy),
                                            !.li = g.li, !.ri = g.ri, !.atoms = g.atoms]
                    /\ ops' = IF ops[op.child].kind = "TempVarRef"
                              THEN [ops EXCEPT ![op.child].rows[g.li] = u.row]
                              ELSE ops
           ELSE /\ iter' = [iter EXCEPT !.pc = g.status, !.li = g.li, !.ri = g.ri,
                                        !.atoms = g.atoms]
                /\ UNCHANGED ops
    /\ UNCHANGED <<cdefs, proj, raised, call, introspected, catalog>>

NextUnnest ==
    \/ \E f \in {"none", "one", "two"}, c \in {"a", "b"} : ConstructUnnest(f, c)
    \/ IterStart
    \/ UnnestNext
    \/ IterClose

SpecUnnest == Init /\ [][NextUnnest]_vars

\* the rows an Unnest is to yield for the rows of its child
RECURSIVE Unnested(_, _)
Unnested(i, rows) ==
    IF Len(rows) = 0 THEN <<>>
    ELSE LET atoms == UnnestAtoms(ops[i].unnest_fn, Head(rows)[ops[i].attribute])
         IN  [k \in 1..Len(atoms) |->
                [c \in DOMAIN Head(rows) |->
                    IF c = ops[i].attribute THEN atoms[k] ELSE Head(rows)[c]]]
             \o Unnested(i, Tail(rows))

\* C14: an Unnest iterated to its end has yielded, for each child row in order
\* and each atom of the unnesting function on the row's attribute value in
\* order, the row with only that attribute replaced by the atom, hence nothing
\* for a row without atoms; and no step changes a row of the child (the step
\* that drops the ended iterator is the one the first part is read at).
C14_UnnestRows ==
    [][/\ (ops[Top].kind = "Unnest" /\ iter.pc = "done") =>
             iter.out = Unnested(Top, OpRows(ops, ops[Top].child).rows)
       /\ \A i \in 1..Len(ops) : ops'[i].rows = ops[i].rows]_vars

\* C14 witness: the iteration of an Unnest whose function gives two atoms per
\* value, over the two rows of the base relation, has ended with four rows
C14_Witness ==
    /\ Len(ops) = 2
    /\ ops[2].kind = "Unnest"
    /\ ops[2].unnest_fn = "two"
    /\ iter.pc = "done"
    /\ Len(iter.out) = 4
    /\ iter.out[1] # iter.out[3]

-----------------------------------------------------------------------------
(* Plans of HashDistinct, iterated row by row and more than once *)


\* The generator of HashDistinct.__iter__ run from g = [li, tuples, status] to its
\* next yield: li the rows of the child it has read
RECURSIVE HashDistinctAdvance(_, _, _, _)
HashDistinctAdvance(g, op, rows, child_err) ==
    IF g.li + 1 > Len(rows)
    THEN [g EXCEPT !.status = IF child_err = "none" THEN "done" ELSE child_err]
    ELSE IF ~(Range(op.distinct_on) \subseteq DOMAIN rows[g.li + 1])
    THEN [g EXCEPT !.status = "KeyError"]
    ELSE LET tuple_ == TupleOf(rows[g.li + 1], op.distinct_on)
         IN  IF tuple_ \notin g.tuples
             THEN [g EXCEPT !.li = @ + 1, !.tuples = @ \cup {tuple_}, !.status = "yield"]
             ELSE HashDistinctAdvance([g EXCEPT !.li = @ + 1], op, rows, child_err)

\* next() on the iterator of the HashDistinct on top of the plan.  The set
\* `tuples` of the generator is kept in the operator's record, with the number
\* of generators begun, so that one iteration can be compared with the next.
HashDistinctNext ==
    /\ iter.pc = "running"
    /\ ops[Top].kind = "HashDistinct"
    /\ LET op == ops[Top]
           c == OpRows(ops, op.child)
           first == iter.mode = ""
           g == HashDistinctAdvance(
                   [li |-> iter.li, status |-> "",
                    tuples |-> IF first THEN FreshTuples(op.tuples) ELSE op.tuples],
                   op, c.rows, c.err)
       IN  /\ first => op.runs < MaxRuns
           /\ IF Len(op.distinct_on) = 0
              THEN /\ iter' = [iter EXCEPT !.pc = "TypeError", !.mode = "begun"]
                   /\ ops' = [ops EXCEPT ![Top].runs = IF first THEN @ + 1 ELSE @]
              ELSE /\ iter' = [iter EXCEPT
                                 !.pc = IF g.status = "yield" THEN "running" ELSE g.status,
                                 !.mode = "begun", !.li = g.li,
                                 !.pos = IF g.status = "yield" THEN @ + 1 ELSE @,
                                 !.out = IF g.status = "yield" THEN Append(@, c.rows[g.li]) ELSE @]
                   /\ ops' = [ops EXCEPT ![Top].tuples = g.tuples,
                                         ![Top].runs = IF first THEN @ + 1 ELSE @]
    /\ UNCHANGED <<cdefs, proj, raised, call, introspected, catalog>>

NextDistinct ==
    \/ \E attrs \in {<<"a">>, <<"a", "b">>} : ConstructHashDistinct(attrs)
    \/ IterStart
    \/ HashDistinctNext
    \/ IterClose

SpecDistinct == InitSelect /\ [][NextDistinct]_vars

\* the rows of rows that are the first with their tuple over distinct_on
RECURSIVE FirstOccurrences(_, _, _)
FirstOccurrences(rows, distinct_on, k) ==
    IF k > Len(rows) THEN <<>>
    ELSE (IF \A j \in 1..(k - 1) : TupleOf(rows[j], distinct_on) # TupleOf(rows[k], distinct_on)
          THEN <<rows[k]>> ELSE <<>>)
         \o FirstOccurrences(rows, distinct_on, k + 1)

\* C15: every iteration of a HashDistinct that has ended, the first or a later
\* one, has yielded the rows of its child that are the first, in child order,
\* to carry their tuple over the attributes: a subsequence of the child's rows
\* with pairwise distinct tuples.
C15_FirstOfEachTuple ==
    (ops[Top].kind = "HashDistinct" /\ iter.pc = "done") =>
        LET out == iter.out
            S == ops[Top].distinct_on
        IN  /\ out = FirstOccurrences(OpRows(ops, ops[Top].child).rows, S, 1)
            /\ \A j, k \in 1..Len(out) : j # k => TupleOf(out[j], S) # TupleOf(out[k], S)

\* C15 witness: the second iteration of a HashDistinct has ended, with one of
\* two rows of equal tuple yielded
C15_Witness ==
    /\ ops[Top].kind = "HashDistinct"
    /\ ops[Top].runs = 2
    /\ iter.pc = "done"
    /\ Len(OpRows(ops, ops[Top].child).rows) = 2
    /\ Len(iter.out) = 1

-----------------------------------------------------------------------------
(* Properties of Union *)

\* C16: at every point of an iteration of Union(l, r) the rows yielded so far
\* are the first rows of l's rows followed by r's rows, so that no row of r
\* comes before l is exhausted, and an iteration that has ended has yielded all
\* of l's rows in order, then all of r's in order: len(l) + len(r) rows.
C16_UnionChains ==
    (ops[Top].kind = "Union" /\ iter.pc \in {"running", "done"}) =>
        LET l == OpRows(ops, ops[Top].child).rows
            r == OpRows(ops, ops[Top].other).rows
        IN  /\ Len(iter.out) <= Len(l) + Len(r)
            /\ \A k \in 1..Len(iter.out) :
                  iter.out[k] = IF k <= Len(l) THEN l[k] ELSE r[k - Len(l)]
            /\ iter.pc = "done" => Len(iter.out) = Len(l) + Len(r)

\* C16 witness: the iteration of a Union of two rows of l and one of r has ended
C16_Witness ==
    /\ ops[Top].kind = "Union"
    /\ iter.pc = "done"
    /\ Len(OpRows(ops, ops[Top].child).rows) = 2
    /\ Len(iter.out) = 3
    /\ iter.out[3] = ValueRow(PyInt(7), PyInt(7))
    /\ iter.out[1] # iter.out[2]

-----------------------------------------------------------------------------
(* Properties of Assign, Create, Alter, Drop *)

AssignKinds == {"Assign", "Create", "Alter", "Drop"}

\* sub occurs in s
RECURSIVE Occurs(_, _)
Occurs(sub, s) ==
    IF Len(s) < Len(sub) THEN FALSE
    ELSE SubSeq(s, 1, Len(sub)) = sub \/ Occurs(sub, SubSeq(s, 2, Len(s)))

\* C17: the description of an Assign, Create, Alter or Drop has the destination
\* schema name and table name and the columns of its child, and each of its keys
\* and foreign keys that has a name has exactly one, [destination schema, name],
\* with no table-name placeholder left in the name.
C17_AssignDescription ==
    \A i \in 1..Len(ops) :
        ops[i].kind \in AssignKinds =>
            LET d == DescriptionOf(ops, cdefs, i)
            IN  /\ d.schema_name = ops[i].schema_name
                /\ d.table_name = ops[i].table_name
                /\ d.column_definitions = Description(ops, ops[i].child).column_definitions
                /\ \A k \in Range(d.keys) \cup Range(d.foreign_keys) :
                      Len(k.names) # 0 =>
                          /\ Len(k.names) = 1
                          /\ k.names[1][1] = ops[i].schema_name
                          /\ ~Occurs(tname_placeholder, k.names[1][2])

-----------------------------------------------------------------------------
(* _make_constraint_name called on its own, with names of various lengths *)

\* ch * n
RECURSIVE Repeat(_, _)
Repeat(ch, n) == IF n = 0 THEN "" ELSE ch \o Repeat(ch, n - 1)

TableNameLengths == {1, 20, 40, 58, 59, 62, 70}

TableNames == {Repeat("t", n) : n \in TableNameLengths} \cup {tname_placeholder}

ColumnNameLists == { <<>>, <<"a">>, <<"a", "b">>, <<Repeat("c", 30)>>,
                     <<Repeat("c", 30), Repeat("d", 30)>> }

Suffixes == {"", "key", "fkey"}

InitConstraintName ==
    /\ ops = <<>>
    /\ cdefs = <<>>
    /\ proj = <<>>
    /\ iter = IdleIter
    /\ raised = "none"
    /\ \E tname \in TableNames, cnames \in ColumnNameLists, suffix \in Suffixes :
          call = [tname |-> tname, cnames |-> cnames, suffix |-> suffix,
                  result |-> "", returned |-> FALSE]
    /\ introspected = FALSE
    /\ catalog = NoCatalog

\* return _make_constraint_name(tname, *cnames, suffix=suffix)
CallMakeConstraintName ==
    /\ ~call.returned
    /\ call' = [call EXCEPT !.result = make_constraint_name(call.tname, call.cnames, call.suffix),
                            !.returned = TRUE]
    /\ UNCHANGED <<ops, cdefs, proj, iter, raised, introspected, catalog>>

NextConstraintName == CallMakeConstraintName

SpecConstraintName == InitConstraintName /\ [][NextConstraintName]_vars

\* s.endswith(tail)
EndsWith(s, tail) ==
    /\ Len(s) >= Len(tail)
    /\ SubSeq(s, Len(s) - Len(tail) + 1, Len(s)) = tail

\* C18: the name _make_constraint_name returns is at most 63 characters long
\* and ends with '_' followed by the suffix
C18_NameFitsAndEndsWithSuffix ==
    call.returned =>
        /\ Len(call.result) <= 63
        /\ EndsWith(call.result, "_" \o call.suffix)

-----------------------------------------------------------------------------
(* Plans over the relation g(key, val) in which every operator with a
   description of its own can be the child of a Project or of an aggregation *)

MaxPlan == 4

UsageItems == {ItemAll, ItemName("key"), ItemIntrospect(<<"key">>), ItemRemoval("val")}

\* a similarity function on keys: equal keys are at distance 0, others at 1.0
KeyEquality == [p \in Keys \X Keys |-> IF p[1] = p[2] THEN 0 ELSE 10]

\* a similarity function on names and terms
NoTermSimilar == [p \in Names \X Terms |-> 10]

CanConstruct ==
    /\ iter.pc = "idle"
    /\ Len(ops) < MaxPlan
    /\ proj = <<>>

\* the caller collects one more item for the projection of the next Project
CollectItem(item) ==
    /\ iter.pc = "idle"
    /\ Len(ops) < MaxPlan
    /\ Len(proj) < MaxProj
    /\ proj' = Append(proj, item)
    /\ UNCHANGED <<ops, cdefs, iter, raised, call, introspected, catalog>>

\* Project(top, proj)
UsageProject ==
    /\ Len(ops) < MaxPlan
    /\ ProjectOnTop

\* Select(top, formula)
UsageSelect ==
    /\ CanConstruct
    /\ ops[Top].kind # "Select"
    /\ ops' = Append(ops, SelectInit(Top, CHOOSE f \in Formulas : TRUE))
    /\ raised' = "none"
    /\ UNCHANGED <<cdefs, proj, iter, call, introspected, catalog>>

\* Unnest(top, unnest_fn, 'val')
UsageUnnest ==
    /\ CanConstruct
    /\ ops' = Append(ops, UnnestInit(Top, Description(ops, Top), "one", "val", Top + 1))
    /\ raised' = "none"
    /\ UNCHANGED <<cdefs, proj, iter, call, introspected, catalog>>

\* CrossJoin(g, top)
UsageCrossJoin ==
    /\ CanConstruct
    /\ ops' = Append(ops, CrossJoinInit(1, Top, Description(ops, 1), Description(ops, Top)))
    /\ raised' = "none"
    /\ UNCHANGED <<cdefs, proj, iter, call, introspected, catalog>>

\* NestedLoopsSimilarityJoin(g, top, Similar('name', 'term', 'syn', similarity_fn))
UsageSimilarityJoin ==
    /\ CanConstruct
    /\ ops' = Append(ops, SimilarityJoinInit(1, Top, Description(ops, 1), Description(ops, Top),
                            [attribute |-> "name", domain |-> "term", synonyms |-> "syn",
                             similarity_fn |-> NoTermSimilar]))
    /\ raised' = "none"
    /\ UNCHANGED <<cdefs, proj, iter, call, introspected, catalog>>

\* NestedLoopsSimilarityAggregation(top, grouping, nesting, similarity_fn, None)
UsageAggregation(grouping, nesting) ==
    /\ CanConstruct
    /\ LET r == AggregationInit(Top, Description(ops, Top), grouping, nesting, KeyEquality, Top + 1)
       IN  IF r.error # "none"
           THEN raised' = r.error /\ UNCHANGED ops
           ELSE raised' = "none" /\ ops' = Append(ops, r.op)
    /\ UNCHANGED <<cdefs, proj, iter, call, introspected, catalog>>

InitUsage ==
    /\ \E n \in 0..1 : \E keys \in [1..n -> {"a", "b"}] :
          ops = <<TempVarRef(GroupRelation, [k \in 1..n |-> GroupRow(keys[k], 1)])>>
    /\ cdefs = <<>>
    /\ proj = <<>>
    /\ iter = IdleIter
    /\ raised = "none"
    /\ call = NoCall
    /\ introspected = FALSE
    /\ catalog = NoCatalog

NextUsage ==
    \/ \E item \in UsageItems : CollectItem(item)
    \/ UsageProject
    \/ UsageSelect
    \/ UsageUnnest
    \/ UsageCrossJoin
    \/ UsageSimilarityJoin
    \/ \E grouping \in Groupings, nesting \in Nestings : UsageAggregation(grouping, nesting)
    \/ IterStart
    \/ IterNext
    \/ IterClose

SpecUsage == InitUsage /\ [][NextUsage]_vars

-----------------------------------------------------------------------------
(* Usage errors *)

\* ValueError of Project.__init__, AssertionError of the aggregation
UsageErrors == {"ValueError", "AssertionError"}

SupportedItems ==
    {"AllAttributes", "str", "IntrospectionFunction", "AttributeAlias", "AttributeDrop",
     "AttributeAdd"}

\* operator i of the plan was given arguments its constructor accepts
WhollyValid(plan, i) ==
    /\ plan[i].kind = "NestedLoopsSimilarityAggregation" =>
          Len(plan[i].grouping) = 1 /\ Len(plan[i].nesting) <= 1
    /\ plan[i].kind = "Project" =>
          \A k \in 1..Len(plan[i].projection) :
              /\ plan[i].projection[k].kind \in SupportedItems
              /\ plan[i].projection[k].kind = "IntrospectionFunction" =>
                    Description(plan, plan[i].child).table_name # tname_placeholder

\* a step in which a constructor raised a usage error
UsageErrorRaised ==
    /\ raised' \in UsageErrors
    /\ raised' # raised \/ (proj # <<>> /\ proj' = <<>>)

\* C19: a usage error (unsupported projection item, IntrospectionFunction on a
\* computed relation, grouping not of length 1, nesting longer than 1) is raised
\* by the constructor, with no row pulled from any child: the step that raises
\* it builds no operator and moves no iterator, so that every operator that
\* exists, and hence every operator that yields rows, is wholly valid
C19_UsageErrorsAtConstruction ==
    [][/\ UsageErrorRaised => (iter.pc = "idle" /\ iter.out = <<>> /\ iter' = iter /\ ops' = ops)
       /\ iter' # iter => raised' = raised
       /\ \A i \in 1..Len(ops') : WhollyValid(ops', i)]_vars

\* after a constructor failed, the plan built before it was iterated to its end
\* and yielded rows
C19_Witness ==
    /\ raised \in UsageErrors
    /\ Len(ops) > 1
    /\ iter.pc = "done"
    /\ iter.out # <<>>

-----------------------------------------------------------------------------
(* IntrospectionFunction over a computed relation *)

ComputedKinds ==
    {"Project", "Unnest", "CrossJoin", "NestedLoopsSimilarityJoin",
     "NestedLoopsSimilarityAggregation"}

\* the operator whose _description operator i of the plan hands on
RECURSIVE Describer(_, _)
Describer(plan, i) ==
    IF plan[i].own \/ Delegate(plan[i]) = 0 THEN i ELSE Describer(plan, Delegate(plan[i]))

\* a step of Project.__init__ on a projection with an IntrospectionFunction,
\* over a child whose relation is the output of an operator of one of kinds
IntrospectOver(kinds) ==
    /\ proj # <<>>
    /\ proj' = <<>>
    /\ \E k \in 1..Len(proj) : proj[k].kind = "IntrospectionFunction"
    /\ ops[Describer(ops, Top)].kind \in kinds

\* C20: constructing a Project with an IntrospectionFunction item over a child
\* whose relation is the output of Project, Unnest, CrossJoin,
\* NestedLoopsSimilarityJoin or NestedLoopsSimilarityAggregation, directly or
\* through operators that hand the description on, raises the usage error,
\* builds no operator and does not call the function
C20_IntrospectionOnComputedFails ==
    [][IntrospectOver(ComputedKinds) =>
          (raised' = "ValueError" /\ ops' = ops /\ ~introspected')]_vars

-----------------------------------------------------------------------------
(* Rows that lack an attribute: one operator over the relation s:v, whose
   consumer may call next() again on an iterator that raised *)

\* a row of s:v without the attribute a
ShortRow == [c \in {"b"} |-> PyInt(1)]

MaxShortRows == 3

InitDataError ==
    /\ \E rows \in RowSeqs({ValueRow(PyInt(1), PyInt(1)), ValueRow(PyInt(2), PyInt(1)), ShortRow},
                           MaxShortRows) :
          ops = <<TempVarRef(ValueDescription, rows)>>
    /\ cdefs = ValueStore
    /\ proj = <<>>
    /\ iter = IdleIter
    /\ raised = "none"
    /\ call = NoCall
    /\ introspected = FALSE
    /\ catalog = NoCatalog

\* Select(v, a < 2), HashDistinct(v, ['a']), Unnest(v, fn, 'a')
ConstructOverRows(op) ==
    /\ iter.pc = "idle"
    /\ Len(ops) = 1
    /\ ops' = Append(ops, op)
    /\ raised' = "none"
    /\ UNCHANGED <<cdefs, proj, iter, call, introspected, catalog>>

\* Project(v, [AllAttributes()])
ProjectOverRows ==
    /\ Len(ops) = 1
    /\ ProjectOnTop

\* filter(self._eval_formula, self._child) asked for its next item, li rows of
\* the child consumed: [status, li, row]
RECURSIVE FilterAdvance(_, _, _)
FilterAdvance(op, rows, li) ==
    IF li >= Len(rows) THEN [status |-> "done", li |-> li, row |-> EmptyMap]
    ELSE LET row == rows[li + 1]
         IN  IF \E k \in 1..Len(op.comparisons) : op.comparisons[k].operand1 \notin DOMAIN row
             THEN [status |-> "KeyError", li |-> li + 1, row |-> EmptyMap]
             ELSE IF eval_formula(op.comparisons, op.connector_fn, row)
             THEN [status |-> "yield", li |-> li + 1, row |-> row]
             ELSE FilterAdvance(op, rows, li + 1)

\* next() on the filter object of a Select, also after it raised: the filter
\* object and the iterator of the child are as the error left them
FilterNext ==
    /\ iter.pc \in {"running", "KeyError"}
    /\ ops[Top].kind = "Select"
    /\ LET g == FilterAdvance(ops[Top], OpRows(ops, ops[Top].child).rows, iter.li)
       IN  iter' = [iter EXCEPT !.pc = IF g.status = "yield" THEN "running" ELSE g.status,
                                !.li = g.li,
                                !.pos = IF g.status = "yield" THEN @ + 1 ELSE @,
                                !.out = IF g.status = "yield" THEN Append(@, g.row) ELSE @]
    /\ UNCHANGED <<ops, cdefs, proj, raised, call, introspected, catalog>>

\* next() on a generator
GeneratorNext ==
    /\ ops[Top].kind # "Select"
    /\ IterNext

\* next() on a generator that raised: the generator is finished, StopIteration
GeneratorNextAfterError ==
    /\ iter.pc = "KeyError"
    /\ ops[Top].kind # "Select"
    /\ iter' = [iter EXCEPT !.pc = "done"]
    /\ UNCHANGED <<ops, cdefs, proj, raised, call, introspected, catalog>>

NextDataError ==
    \/ ConstructOverRows(SelectInit(1, FormulaComparison(Comparison("a", "lt", PyInt(2)))))
    \/ ConstructOverRows(HashDistinctInit(1, <<"a">>))
    \/ ConstructOverRows(UnnestInit(1, Description(ops, 1), "one", "a", 2))
    \/ ProjectOverRows
    \/ IterStart
    \/ FilterNext
    \/ GeneratorNext
    \/ GeneratorNextAfterError
    \/ IterClose

SpecDataError == InitDataError /\ [][NextDataError]_vars

\* the rows before the first row of rows that lacks the attribute a
RowsBeforeShort(rows) == WellFormedPrefix(rows, {"a"})

\* C21: when a child row lacks an attribute that Select, Project, HashDistinct
\* or Unnest needs, the error is raised at that row, after exactly the outputs
\* of the rows before it, and it ends the iteration: no later next() on the
\* same iterator yields a row
C21_FirstDataErrorAborts ==
    [][/\ (iter.pc = "running" /\ iter'.pc = "KeyError") =>
             iter.out = OpRows([ops EXCEPT ![1].rows = RowsBeforeShort(@)], Top).rows
       /\ (iter.pc = "KeyError" /\ iter'.pc # "idle") => iter'.out = iter.out]_vars

-----------------------------------------------------------------------------
(* Properties of Buffered *)

IsPrefix(s, t) == Len(s) <= Len(t) /\ SubSeq(t, 1, Len(s)) = s

\* C22: an iteration of a Buffered that finds k >= 1 rows in the buffer yields
\* exactly these rows, in order, and asks the child for nothing; once the child
\* has been iterated to its end, every later iteration yields the whole
\* sequence of the child and the child is not iterated again
C22_BufferedReplays ==
    [][ops[Top].kind = "Buffered" =>
          /\ iter'.mode = "replay" =>
                /\ ops'[Top] = ops[Top]
                /\ IsPrefix(iter'.out, ops[Top].buffer)
                /\ iter'.pc = "done" => iter'.out = ops[Top].buffer
          /\ ops[Top].exhausted >= 1 =>
                /\ ops'[Top].runs = ops[Top].runs
                /\ iter'.pc = "done" => iter'.out = OpRows(ops, ops[Top].child).rows]_vars

-----------------------------------------------------------------------------
(* _rename_row_attributes called on its own *)

MaxRenames == 2

\* the rename maps {new_name: old_name} of at most MaxRenames pairs; the new
\* names of a dict are distinct
RenameMaps ==
    {m \in RowSeqs([key : {"a", "b", "x", "y"}, val : {"a", "b"}], MaxRenames) :
        \A i, j \in 1..Len(m) : m[i].key = m[j].key => i = j}

RenameRows == { [c \in {"a", "b", "c"} |-> IF c = "a" THEN 1 ELSE IF c = "b" THEN 2 ELSE 3],
                [c \in {"a", "b"} |-> IF c = "a" THEN 1 ELSE 1] }

InitRename ==
    /\ ops = <<>>
    /\ cdefs = <<>>
    /\ proj = <<>>
    /\ iter = IdleIter
    /\ raised = "none"
    /\ introspected = FALSE
    /\ catalog = NoCatalog
    /\ \E row \in RenameRows, renames \in RenameMaps, always_copy \in BOOLEAN :
          call = [row |-> row, renames |-> renames, always_copy |-> always_copy,
                  result |-> [ok |-> TRUE, row |-> EmptyMap, same |-> FALSE],
                  returned |-> FALSE]

\* return cls._rename_row_attributes(row, renames, always_copy)
CallRenameRowAttributes ==
    /\ ~call.returned
    /\ call' = [call EXCEPT
                  !.result = rename_row_attributes(call.row, call.renames, call.always_copy),
                  !.returned = TRUE]
    /\ UNCHANGED <<ops, cdefs, proj, iter, raised, introspected, catalog>>

NextRename == CallRenameRowAttributes

SpecRename == InitRename /\ [][NextRename]_vars

NewNames(renames) == {renames[i].key : i \in 1..Len(renames)}
OldNames(renames) == {renames[i].val : i \in 1..Len(renames)}

\* C23: _rename_row_attributes returns the very row it was given when the map
\* is empty and always_copy is false; otherwise it returns a new mapping in
\* which, for every pair (new, old), result[new] = row[old] and the key old is
\* absent (unless old is itself a new name of the map), and every key the map
\* does not name keeps its value; for every rename map
C23_RenameIsSimultaneous ==
    call.returned =>
        LET r == call.result
        IN  IF Len(call.renames) = 0 /\ ~call.always_copy
            THEN r.same /\ r.row = call.row
            ELSE /\ r.ok
                 /\ ~r.same
                 /\ \A i \in 1..Len(call.renames) :
                        /\ call.renames[i].key \in DOMAIN r.row
                        /\ r.row[call.renames[i].key] = call.row[call.renames[i].val]
                        /\ call.renames[i].val \notin NewNames(call.renames) =>
                              call.renames[i].val \notin DOMAIN r.row
                 /\ \A c \in DOMAIN call.row \ (NewNames(call.renames) \cup OldNames(call.renames)) :
                        c \in DOMAIN r.row /\ r.row[c] = call.row[c]

-----------------------------------------------------------------------------
(* The scan of NestedLoopsSimilarityJoin *)

\* the number of terms of the right rows: the calls of a scan that never stops early
AllTerms(i) ==
    LET rrows == OpRows(ops, ops[i].right).rows
        RECURSIVE Count(_)
        Count(k) == IF k = 0 THEN 0
                    ELSE Count(k - 1) + Len(DomainAndSynonyms(ops[i], rrows[k]))
    IN  Count(Len(rrows))

\* C24: for each left row, once the similarity function has returned 0.0 it is
\* not called again for that left row: a 0.0 is the last value of the calls
\* made for a left row
C24_NoCallAfterExactMatch ==
    \A k \in 1..Len(iter.calls) :
        \A c \in 1..Len(iter.calls[k]) :
            iter.calls[k][c] = 0 => c = Len(iter.calls[k])

\* a left row whose scan stopped at an exact match with terms left to compare
C24_Witness ==
    /\ ops[Top].kind = "NestedLoopsSimilarityJoin"
    /\ \E k \in 1..Len(iter.calls) :
          /\ Len(iter.calls[k]) >= 2
          /\ iter.calls[k][Len(iter.calls[k])] = 0
          /\ Len(iter.calls[k]) + 2 <= AllTerms(Top)

\* the right rows that attain the least score of left_row
BestRightRows(i, left_row, rrows) ==
    LET score(k) == RowScore(i, left_row[ops[i].target], rrows[k])
    IN  {k \in 1..Len(rrows) : \A j \in 1..Len(rrows) : score(k) <= score(j)}

\* whether left_row has a right row with a score below 1.0
HasMatch(i, left_row, rrows) ==
    \E k \in 1..Len(rrows) : RowScore(i, left_row[ops[i].target], rrows[k]) < 10

\* the place in the output of the row of left row k
OutputPlace(i, lrows, rrows, k) ==
    Cardinality({j \in 1..k : HasMatch(i, lrows[j], rrows)})

\* C25: when several right rows attain the same least score below 1.0 for a
\* left row, the left row is joined to the earliest of them in the order of the
\* right child
C25_TieGoesToEarliest ==
    (ops[Top].kind = "NestedLoopsSimilarityJoin" /\ iter.pc = "done") =>
        LET lrows == OpRows(ops, 1).rows
            rrows == OpRows(ops, 2).rows
        IN  \A k \in 1..Len(lrows) :
                (HasMatch(Top, lrows[k], rrows)
                    /\ Cardinality(BestRightRows(Top, lrows[k], rrows)) >= 2) =>
                iter.out[OutputPlace(Top, lrows, rrows, k)] =
                    Joined(Top, lrows[k], rrows[MinOf(BestRightRows(Top, lrows[k], rrows))])

\* two different right rows tie at 0.5 for a left row, which was joined
C25_Witness ==
    /\ ops[Top].kind = "NestedLoopsSimilarityJoin"
    /\ iter.pc = "done"
    /\ Len(iter.out) = 1
    /\ Len(OpRows(ops, 1).rows) = 1
    /\ LET rrows == OpRows(ops, 2).rows
           left_row == OpRows(ops, 1).rows[1]
       IN  /\ Len(rrows) = 2
           /\ rrows[1] # rrows[2]
           /\ RowScore(Top, left_row[ops[Top].target], rrows[1]) = 5
           /\ RowScore(Top, left_row[ops[Top].target], rrows[2]) = 5

-----------------------------------------------------------------------------
(* NestedLoopsSimilarityAggregation without a nesting attribute *)

\* the keys of the representatives: the rows that are the first similar row of
\* some row
RepresentativeKeys(i, rows) ==
    {rows[FirstSimilar(i, rows, c)][ops[i].grouping[1]] :
        c \in {x \in 1..Len(rows) : SimilarRows(i, rows, x) # {}}}

\* C26: a NestedLoopsSimilarityAggregation without a nesting attribute, iterated
\* to its end, has yielded one row per group, and the row of a group is a row of
\* the child, unmodified, whose grouping key is the representative key of the
\* group
C26_RepresentativeRowVerbatim ==
    (ops[Top].kind = "NestedLoopsSimilarityAggregation" /\ Len(ops[Top].nesting) = 0
     /\ iter.pc = "done") =>
        LET rows == OpRows(ops, 1).rows
            key == ops[Top].grouping[1]
        IN  /\ Len(iter.out) = Cardinality(RepresentativeKeys(Top, rows))
            /\ \A k \in 1..Len(iter.out) : iter.out[k] \in Range(rows)
            /\ {iter.out[k][key] : k \in 1..Len(iter.out)} = RepresentativeKeys(Top, rows)

\* the groups a row of the child has been assigned to, one after the other
GroupsOfRow(i, rows, r) ==
    LET claims == GroupsOf(ops[i], rows).claims
    IN  {k \in 1..Len(claims) : claims[k].row = r}

\* C27: when a NestedLoopsSimilarityAggregation whose similarity function is
\* below 1.0 on equal keys has been iterated to its end, every row of its child
\* has been assigned to exactly one group, whatever the grouping keys are
C27_GroupsPartitionRows ==
    (ops[Top].kind = "NestedLoopsSimilarityAggregation" /\ iter.pc = "done"
     /\ \A k \in Keys : ops[Top].similarity_fn[<<k, k>>] < 10) =>
        \A r \in 1..Len(OpRows(ops, 1).rows) :
            Cardinality(GroupsOfRow(Top, OpRows(ops, 1).rows, r)) = 1

-----------------------------------------------------------------------------
(* The rows a consumer of a CrossJoin holds *)

\* C28: a row a CrossJoin has yielded is not altered by the later pulls from
\* the same iteration: every row the consumer holds has the columns and values
\* it had when it was yielded
C28_YieldedRowsAreNotAltered ==
    ops[Top].kind = "CrossJoin" =>
        \A k \in 1..Len(iter.out) : iter.held[k] = iter.out[k]

-----------------------------------------------------------------------------
(* Column names of a CrossJoin *)

\* the names of the sequence are pairwise distinct
Distinct(names) == \A j, k \in 1..Len(names) : names[j] = names[k] => j = k

\* C29: when the column names of each operand of a CrossJoin are pairwise
\* distinct, so are the column names of the description of the CrossJoin, be the
\* table names of the operands equal or a composed name equal to a column that
\* exists
C29_ColumnNamesDistinct ==
    \A i \in CrossJoins :
        (/\ Distinct(ColNameSeq(Description(ops, ops[i].left)))
         /\ Distinct(ColNameSeq(Description(ops, ops[i].right))))
            => Distinct(ColNameSeq(Description(ops, i)))

-----------------------------------------------------------------------------
(* ERMrestCatalog._materialize_relation: plans over the table s:t, materialized
   in an evolve block whose flags are those of catalog *)

\* the materializations of one behaviour
MaxMaterialize == 2

\* the classes an operator of the kind is an instance of
Mro(kind) ==
    IF kind \in {"Create", "Alter", "Drop"} THEN {kind, "Assign", "PhysicalOperator"}
    ELSE {kind, "PhysicalOperator"}

\* isinstance(plan, cls)
IsInstance(kind, cls) == cls \in Mro(kind)

\* the branch of the if / elif chain a plan takes
MaterializeBranch(kind) ==
    IF IsInstance(kind, "Alter") THEN "alter"
    ELSE IF IsInstance(kind, "Drop") THEN "drop"
    ELSE IF IsInstance(kind, "Assign") THEN "create"
    ELSE "ValueError"

\* a guard that lets every mutation through
AlwaysAllowed(flag) == TRUE

\* `if not self._evolve_ctx.allow_alter: raise` and the same on allow_drop: the
\* mutation goes on when the flag is true
Allowed(flag) == flag

\* a call to the remote catalog
CatalogCall(op, sname, tname) == [op |-> op, sname |-> sname, tname |-> tname]

\* the table objects of the local model: `listed` ones are in the _backup dict
\* of the tables of their schema
TableObject(sname, tname) == [sname |-> sname, tname |-> tname, valid |-> TRUE, listed |-> TRUE]

Listed(tables, sname, tname) ==
    {k \in 1..Len(tables) : tables[k].listed /\ tables[k].sname = sname /\ tables[k].tname = tname}

\* the table object of that name is made invalid and leaves the _backup dict
Unlist(tables, sname, tname) ==
    [k \in 1..Len(tables) |->
        IF k \in Listed(tables, sname, tname)
        THEN [tables[k] EXCEPT !.valid = FALSE, !.listed = FALSE]
        ELSE tables[k]]

\* the _backup entry of that name is set to a new table object; an object it
\* replaces stays as it is
Relist(tables, sname, tname) ==
    Append([k \in 1..Len(tables) |->
               IF k \in Listed(tables, sname, tname)
               THEN [tables[k] EXCEPT !.listed = FALSE]
               ELSE tables[k]],
           TableObject(sname, tname))

\* _materialize_relation(plan) from the state cat of the catalog: the catalog
\* after it and the exception it ends with.  The remote catalog has the tables
\* the local model lists; a table that is not there makes the lookup in
\* _do_alter_table and _do_drop_table fail, and a table that is there makes the
\* remote catalog refuse to create it.
MaterializeRelation(plan, description, cat) ==
    LET sname == description.schema_name
        tname == description.table_name
        there == Listed(cat.tables, sname, tname) # {}
        branch == MaterializeBranch(plan.kind)
        Calls(c) == [cat EXCEPT !.calls = @ \o c]
    IN  CASE branch = "alter" ->
                IF ~Allowed(cat.allow_alter)
                THEN [catalog |-> cat, raised |-> "CatalogMutationError"]
                ELSE IF ~there
                THEN [catalog |-> Calls(<<CatalogCall("getCatalogModel", "", "")>>),
                      raised |-> "KeyError"]
                ELSE [catalog |->
                         [Calls(<<CatalogCall("getCatalogModel", "", ""),
                                  CatalogCall("alter_table", sname, tname),
                                  CatalogCall("getCatalogSchema", "", "")>>)
                             EXCEPT !.tables = Append(Unlist(cat.tables, sname, tname),
                                                      TableObject(sname, tname))],
                      raised |-> "none"]
          [] branch = "drop" ->
                IF ~Allowed(cat.allow_drop)
                THEN [catalog |-> cat, raised |-> "CatalogMutationError"]
                ELSE IF ~there
                THEN [catalog |-> Calls(<<CatalogCall("getCatalogModel", "", "")>>),
                      raised |-> "KeyError"]
                ELSE [catalog |->
                         [Calls(<<CatalogCall("getCatalogModel", "", ""),
                                  CatalogCall("drop_table", sname, tname)>>)
                             EXCEPT !.tables = Unlist(cat.tables, sname, tname)],
                      raised |-> "none"]
          [] branch = "create" ->
                IF there
                THEN [catalog |-> Calls(<<CatalogCall("getCatalogModel", "", ""),
                                          CatalogCall("create_table", sname, tname)>>),
                      raised |-> "HTTPError"]
                ELSE [catalog |->
                         [Calls(<<CatalogCall("getCatalogModel", "", ""),
                                  CatalogCall("create_table", sname, tname),
                                  CatalogCall("getPathBuilder", "", ""),
                                  CatalogCall("insert", sname, tname),
                                  CatalogCall("getCatalogSchema", "", "")>>)
                             EXCEPT !.tables = Relist(cat.tables, sname, tname)],
                      raised |-> "none"]
          [] OTHER -> [catalog |-> cat, raised |-> "ValueError"]

MaterializeTables == {"t", "T"}

InitMaterialize ==
    /\ \E rows \in Payloads : ops = <<TempVarRef(BaseDescription, rows)>>
    /\ cdefs = BaseStore
    /\ proj = <<>>
    /\ iter = IdleIter
    /\ raised = "none"
    /\ call = NoCall
    /\ introspected = FALSE
    /\ \E allow_alter \in BOOLEAN, allow_drop \in BOOLEAN :
          catalog = [allow_alter |-> allow_alter, allow_drop |-> allow_drop,
                     calls |-> <<>>, tables |-> <<TableObject("s", "t")>>]

\* the materializations made so far: each raised or made a call
Materializations ==
    Cardinality({k \in 1..Len(catalog.calls) : catalog.calls[k].op = "getCatalogModel"})

\* catalog._materialize_relation(top operator)
Materialize ==
    /\ iter.pc = "idle"
    /\ raised = "none"
    /\ Materializations < MaxMaterialize
    /\ LET r == MaterializeRelation(ops[Top], Description(ops, Top), catalog)
       IN  /\ catalog' = r.catalog
           /\ raised' = r.raised
    /\ UNCHANGED <<ops, cdefs, proj, iter, call, introspected>>

NextMaterialize ==
    \/ \E k \in {"Assign", "Create", "Drop"}, sn \in Schemas, tn \in MaterializeTables :
          ConstructAssign(k, sn, tn)
    \/ \E sn \in Schemas, tn \in MaterializeTables :
          ConstructAlter(sn, tn, <<ItemAll, ItemRemoval("b")>>)
    \/ Materialize

SpecMaterialize == InitMaterialize /\ [][NextMaterialize]_vars

\* the calls a step adds to those made to the remote catalog
NewCalls == SubSeq(catalog'.calls, Len(catalog.calls) + 1, Len(catalog'.calls))

NewOps == {NewCalls[k].op : k \in 1..Len(NewCalls)}

\* C30: _materialize_relation makes an alter-table call only while allow_alter
\* is true and a drop-table call only while allow_drop is true; on an Alter
\* (Drop) plan with the flag false it raises CatalogMutationError, makes no call
\* to the catalog and leaves the tables of the local model as they are; and it
\* never creates a table or inserts rows for an Alter or a Drop plan
C30_MutationsAreGuarded ==
    [][Materialize =>
          /\ "alter_table" \in NewOps => catalog.allow_alter
          /\ "drop_table" \in NewOps => catalog.allow_drop
          /\ (ops[Top].kind = "Alter" /\ ~catalog.allow_alter) =>
                 (raised' = "CatalogMutationError" /\ catalog' = catalog)
          /\ (ops[Top].kind = "Drop" /\ ~catalog.allow_drop) =>
                 (raised' = "CatalogMutationError" /\ catalog' = catalog)
          /\ ops[Top].kind \in {"Alter", "Drop"} =>
                 NewOps \cap {"create_table", "insert"} = {}]_vars

\* an Alter plan has been materialized with allow_alter true, and a Drop plan
\* has been refused after it
C30_Witness ==
    /\ ops[Top].kind = "Drop"
    /\ raised = "CatalogMutationError"
    /\ \E k \in 1..Len(catalog.calls) : catalog.calls[k].op = "alter_table"

====
